---- MODULE Spec2Model ----
(***************************************************************************)
(* Model of the three log-ingestion pipelines of safariwashes/washify:     *)
(*   - the kiosk session reconstructor   (src/upload_from_aws.py)          *)
(*   - the loader tail-resume importer   (src/loader_log_importer_render.py)*)
(*   - the RTC event extractor           (src/upload_from_rtc.py)          *)
(* Text is modelled one level above characters: a log line is a sequence   *)
(* of tokens (the phrases the regular expressions look for), a number is   *)
(* its string of decimal digits, a name is its sequence of words.          *)
(***************************************************************************)
EXTENDS Integers, Sequences, FiniteSets, TLC

VARIABLES
  \* ---- kiosk pipeline (upload_from_aws.py) ----
  kpc,              \* position of main(): "idle", "parsing", "crashed"
  kfamily,          \* which family of log lines the file under test is made of
  from_s3,          \* FALSE: INPUT_PATH names a local file; TRUE: newest S3 object
  kobj,             \* TRUE while the S3 object (or local file) still exists
  kfile,            \* the lines of the kiosk file, in file order
  sess,             \* parse_file: the open session (None or Some(record))
  sessions,         \* parse_file: the flushed sessions
  session_counter,  \* parse_file: the next session_index
  washify,          \* the washify table: a set of rows
  washify1,         \* history: the washify table as the first run left it
  kexits,           \* how each run of main() so far ended: "ok", "crash" (in
                    \* parse_file), "upsert_failed" (in batch_upsert), "nofile"
  kpos,             \* parse_file: number of lines of kfile consumed in this run
  clock,            \* wall clock (ticks), read by now_cst_date / now_cst_time
  klast            \* history: the rows parse_file returned in the last run

VARIABLES
  \* ---- loader pipeline (loader_log_importer_render.py) ----
  ldevice,          \* the tunnel controller's own log: every line written so far
  lobj,             \* the .txt object in the dated S3 folder: None or Some(lines)
  loader_log,       \* the loader_log table: the committed rows, in commit order
  super_t,          \* the super table: a set of rows
  tunnel_t,         \* the tunnel table: a set of rows
  heartbeat,        \* number of rows of the heartbeat table
  lrun,             \* one record per process started by POST /loader: the
                    \* locals of process_folder, its position, and the history
                    \* of the statements it executed
  lfails,           \* number of calls that raised so far
  lunprocessed      \* history: start indices of the blocks of the object that
                    \* failed in a run, without a loader_log row, and were not
                    \* walked with success since

VARIABLES
  \* ---- RTC pipeline (upload_from_rtc.py) ----
  rfile,            \* the content of the RTC log: its candidate lines, in order
  rsrc,             \* the key under which the RTC log was first uploaded
  s3_keys,          \* the keys of the objects of the RTC bucket (all hold rfile)
  rtc_log,          \* the rtc_log table: the committed rows, in commit order
  rrun,             \* one record per run of main(): its locals and position
  rfails,           \* number of calls (INSERT, delete_object) that raised so far
  ruploads,         \* history: the uploads made by upload_unparsed_file
  rtmp              \* whether /tmp/<basename of the key> exists: the keys of the
                    \* model share their basename, so the runs share the file

VARIABLES
  \* ---- kiosk pipeline behind POST /trigger (app.py, upload_from_aws.py) ----
  tbucket,          \* the objects under kiosks/: records [key, LastModified, lines]
  tnow,             \* the S3 clock, in seconds
  tposted,          \* the keys whose POST /trigger is on its way to app.py
  trun,             \* one record per process started by /trigger: its argv,
                    \* its locals and its position in main()
  twashify          \* the washify table seen by these processes

rvars == <<rfile, rsrc, s3_keys, rtc_log, rrun, rfails, ruploads, rtmp>>

lvars == <<ldevice, lobj, loader_log, super_t, tunnel_t, heartbeat, lrun, lfails,
           lunprocessed>>

kvars == <<kpc, kfamily, from_s3, kobj, kfile, sess, sessions, session_counter,
           washify, washify1, kexits, kpos, clock, klast>>

tvars == <<tbucket, tnow, tposted, trun, twashify>>

vars == <<kvars, lvars, rvars, tvars>>

-----------------------------------------------------------------------------
\* Bounds of the model
MaxLines == 3        \* lines in a kiosk file
MaxRuns == 2         \* runs of the kiosk main()
TicksPerDay == 2     \* clock ticks per calendar day
MaxBlocks == 2       \* blocks the tunnel controller logs
MaxLRuns == 2        \* processes of the loader, one after the other or overlapping
MaxDbFailures == 1   \* calls that raise, over a behaviour of the loader
MaxEvents == 5       \* recv events in an RTC log of the duplicate-run family
MaxChunks == 2       \* candidate lines in an RTC log of the mixed family
MaxRtcRuns == 2      \* runs of the RTC main(), one after the other or interleaved
MaxTriggers == 2        \* kiosk objects uploaded, one POST /trigger for each
MaxRtcFailures == 1  \* calls that raise, over a behaviour of the RTC pipeline

-----------------------------------------------------------------------------
\* Optional values (Python's None / a value)
None == <<>>
Some(x) == <<x>>
IsNone(o) == o = <<>>
IsSome(o) == o /= <<>>
Val(o) == o[1]

Min(S) == CHOOSE x \in S : \A y \in S : x <= y
Max(S) == CHOOSE x \in S : \A y \in S : x >= y

\* int(s) for a string of decimal digits, most significant first
RECURSIVE ToInt(_)
ToInt(d) == IF d = <<>> THEN 0
            ELSE 10 * ToInt(SubSeq(d, 1, Len(d) - 1)) + d[Len(d)]

\* str(n) for n >= 0
RECURSIVE ToDigits(_)
ToDigits(n) == IF n < 10 THEN <<n>> ELSE Append(ToDigits(n \div 10), n % 10)

IsPrefix(p, s) == Len(p) <= Len(s) /\ SubSeq(s, 1, Len(p)) = p

\* words of the vocabulary of which another word is a proper prefix
\* ("SUPER" begins with "SUP")
PrefixPairs == { <<"SUPER", "SUP">> }
StartsWith(w, k) == w = k \/ <<w, k>> \in PrefixPairs

\* "key in text" (a substring test) for texts written as words separated by
\* single spaces: the words of the key occur as a contiguous run of words of
\* the text, the last of them possibly as the beginning of a longer word (no
\* word of the vocabulary ends with another word)
Contains(text, key) ==
  \E i \in 0..(Len(text) - Len(key)) :
    /\ \A j \in 1..(Len(key) - 1) : text[i + j] = key[j]
    /\ StartsWith(text[i + Len(key)], key[Len(key)])

-----------------------------------------------------------------------------
(***************************************************************************)
(* KIOSK PIPELINE: text layer.                                             *)
(* A line is [ts, bad, toks]: ts the parsed timestamp header (None when    *)
(* the line has none), bad = the header has the shape of TS_RE but is no   *)
(* valid date, toks the phrases of its content, left to right.  A token is *)
(* [k, n, s]: its kind, its digits (a number as written) and its words.    *)
(***************************************************************************)
Tok(k, n, s) == [k |-> k, n |-> n, s |-> s]
T(k) == Tok(k, <<>>, <<>>)
Line(ts, toks) == [ts |-> ts, bad |-> FALSE, toks |-> toks]
BadTsLine(toks) == [ts |-> None, bad |-> TRUE, toks |-> toks]

\* index of the first token satisfying P, 0 when there is none
FirstIdx(toks, P(_)) ==
  LET S == {i \in DOMAIN toks : P(toks[i])} IN IF S = {} THEN 0 ELSE Min(S)

\* a number as written, as one word
DigitChars == <<"0", "1", "2", "3", "4", "5", "6", "7", "8", "9">>
RECURSIVE DigitsWord(_)
DigitsWord(n) ==
  IF n = <<>> THEN "" ELSE DigitChars[n[1] + 1] \o DigitsWord(Tail(n))

\* the words a token is written with: its keyword, its digits, its words
Keyword(k) ==
  IF k = "PaymentType" THEN <<"Payment", "Type">>
  ELSE IF k = "WashPackage" THEN <<"Wash", "Package">>
  ELSE IF k = "CustomerName" THEN <<"Customer", "Name">>
  ELSE IF k = "LicensePlate" THEN <<"License", "Plate">>
  ELSE IF k = "AwsFileName" THEN <<"Aws", "File", "Name">>
  ELSE <<k>>
Written(t) ==
  Keyword(t.k) \o (IF t.n = <<>> THEN <<>> ELSE <<DigitsWord(t.n)>>)
               \o (IF t.k = "WashPackage" THEN <<"with", "Name">> ELSE <<>>)
               \o t.s

\* the words of a line after token i (its tokens follow one another, separated
\* by a space; a line holds no comma after its timestamp header)
RECURSIVE WrittenAfter(_, _)
WrittenAfter(toks, i) ==
  IF i >= Len(toks) THEN <<>>
  ELSE Written(toks[i + 1]) \o WrittenAfter(toks, i + 1)

\* a group that runs to the end of the line ((.+)$, ([^,]+)) from the words of
\* token i
RestOfLine(toks, i) == toks[i].s \o WrittenAfter(toks, i)

\* the substring tests `"X" in content`
HasText(toks, k) == \E i \in DOMAIN toks : toks[i].k = k
\* "SaveTransaction" is a substring of "SaveTransactions"
HasSaveTransaction(toks) ==
  HasText(toks, "SaveTransaction") \/ HasText(toks, "SaveTransactions")

\* INVOICE_INLINE_PAY_RE: InvoiceID <digits> directly followed by Payment Type <word>
InlinePayIdx(toks) ==
  LET S == {i \in DOMAIN toks : /\ toks[i].k = "InvoiceID"
                                /\ i + 1 \in DOMAIN toks
                                /\ toks[i + 1].k = "PaymentType"}
  IN IF S = {} THEN 0 ELSE Min(S)
INVOICE_INLINE_PAY_RE(toks) ==
  IF InlinePayIdx(toks) = 0 THEN None ELSE Some(toks[InlinePayIdx(toks)].n)

\* PROCEED_INVOICE_RE: ProceedToCarWashViewModel .*? InvoiceID <digits>
PROCEED_INVOICE_RE(toks) ==
  LET p == FirstIdx(toks, LAMBDA t : t.k = "ProceedToCarWashViewModel")
      S == {i \in DOMAIN toks : i > p /\ toks[i].k = "InvoiceID"}
  IN IF p = 0 \/ S = {} THEN None ELSE Some(toks[Min(S)].n)

\* DO_TXN_RE: DoTransactionAfterDispatcher <digits>
DO_TXN_RE(toks) ==
  LET i == FirstIdx(toks, LAMBDA t : t.k = "DoTransactionAfterDispatcher")
  IN IF i = 0 THEN None ELSE Some(toks[i].n)

\* INVOICE_ANY_RE: InvoiceID <digits>, case-insensitive
INVOICE_ANY_RE(toks) ==
  LET i == FirstIdx(toks, LAMBDA t : t.k = "InvoiceID")
  IN IF i = 0 THEN None ELSE Some(toks[i].n)

\* INVOICE_FROM_AWS_RE: InvoiceId <digits>, case-insensitive: the same matches
INVOICE_FROM_AWS_RE(toks) ==
  LET i == FirstIdx(toks, LAMBDA t : t.k = "InvoiceID")
  IN IF i = 0 THEN None ELSE Some(toks[i].n)

\* a variant of the cascade that tries the proceed-to-wash pattern before the
\* dispatcher pattern
InvoiceCascade_ProceedFirst(toks) ==
  << INVOICE_INLINE_PAY_RE(toks), PROCEED_INVOICE_RE(toks), DO_TXN_RE(toks),
     INVOICE_ANY_RE(toks), INVOICE_FROM_AWS_RE(toks) >>

\* the order in which parse_file tries the five invoice patterns
InvoiceCascade(toks) ==
  << INVOICE_INLINE_PAY_RE(toks), DO_TXN_RE(toks), PROCEED_INVOICE_RE(toks),
     INVOICE_ANY_RE(toks), INVOICE_FROM_AWS_RE(toks) >>

\* str.rstrip("."): trailing full stops removed (the word "." stands for a
\* full stop written directly after the word before it)
RECURSIVE RStripDot(_)
RStripDot(w) == IF w /= <<>> /\ w[Len(w)] = "." THEN RStripDot(SubSeq(w, 1, Len(w) - 1))
                ELSE w

\* WASH_PKG_RE: Wash Package <digits> with Name <rest of the line>; (.+)$
\* needs at least one character after "with Name"
WASH_PKG_RE(toks) ==
  LET i == FirstIdx(toks, LAMBDA t : t.k = "WashPackage")
  IN IF i = 0 \/ RestOfLine(toks, i) = <<>> THEN None
     ELSE Some([id |-> toks[i].n, name |-> RStripDot(RestOfLine(toks, i))])

\* PAYMENT_TYPE_RE: Payment Type <word>
PAYMENT_TYPE_RE(toks) ==
  LET i == FirstIdx(toks, LAMBDA t : t.k = "PaymentType")
  IN IF i = 0 THEN None ELSE Some(toks[i].s[1])

\* str.upper() on the words of the vocabulary
Upper(w) == IF w = "Tip" THEN "TIP" ELSE IF w = "Best" THEN "BEST"
            ELSE IF w = "Wash" THEN "WASH" ELSE IF w = "abc123" THEN "ABC123"
            ELSE IF w = "Better" THEN "BETTER" ELSE IF w = "Good" THEN "GOOD"
            ELSE IF w = "Basic" THEN "BASIC" ELSE IF w = "Interior" THEN "INTERIOR"
            ELSE IF w = "Super" THEN "SUPER" ELSE IF w = "Sup" THEN "SUP" ELSE w
UpperWords(ws) == [i \in DOMAIN ws |-> Upper(ws[i])]

\* float(w) for the number words of the vocabulary; -1: not a number
NumVal(w) == IF w = "2" THEN 2 ELSE IF w = "3" THEN 3 ELSE IF w = "5" THEN 5 ELSE -1

\* is_tip_text: TIP_HEAD_RE = ^\s*TIP\b, case-insensitive
is_tip_text(txt) == txt /= <<>> /\ Upper(txt[1]) = "TIP"

\* tip_amount_from_text: TIP_AMOUNT_RE = \bTip\s*\$?\s*(number)\b
tip_amount_from_text(txt) ==
  LET S == {i \in DOMAIN txt : /\ Upper(txt[i]) = "TIP" /\ i + 1 \in DOMAIN txt
                               /\ NumVal(txt[i + 1]) >= 0}
  IN IF S = {} THEN 0 ELSE NumVal(txt[Min(S) + 1])

\* WASH_TYPE_MAP, in the dict's insertion order
WASH_TYPE_MAP ==
  << [key |-> <<"INTERIOR", "SUP">>, val |-> "Super"],
     [key |-> <<"BEST", "WASH">>,    val |-> "Best"],
     [key |-> <<"BETTER", "WASH">>,  val |-> "Better"],
     [key |-> <<"GOOD", "WASH">>,    val |-> "Good"],
     [key |-> <<"BASIC", "WASH">>,   val |-> "Basic"] >>
ALLOWED_WASH_TYPES == {"Basic", "Good", "Better", "Best", "Super"}

\* characters of the words of the keys, and len(key)
WordLen(w) == IF w = "INTERIOR" THEN 8 ELSE IF w = "BETTER" THEN 6
              ELSE IF w = "BASIC" THEN 5 ELSE IF w = "SUP" THEN 3 ELSE 4
RECURSIVE CharLen(_)
CharLen(key) == IF key = <<>> THEN 0
                ELSE IF Len(key) = 1 THEN WordLen(key[1])
                ELSE WordLen(key[1]) + 1 + CharLen(Tail(key))

\* a variant of map_wash_type in which the longest contained key decides
map_wash_type_Longest(name) ==
  IF IsNone(name) \/ Val(name) = <<>> THEN None
  ELSE LET up == UpperWords(Val(name))
           S == {i \in DOMAIN WASH_TYPE_MAP : Contains(up, WASH_TYPE_MAP[i].key)}
           L == {i \in S : \A j \in S : CharLen(WASH_TYPE_MAP[j].key)
                                           <= CharLen(WASH_TYPE_MAP[i].key)}
       IN IF S = {} THEN None ELSE Some(WASH_TYPE_MAP[Min(L)].val)

\* map_wash_type: the first key of WASH_TYPE_MAP contained in the upper-cased name
map_wash_type(name) ==
  IF IsNone(name) \/ Val(name) = <<>> THEN None
  ELSE LET up == UpperWords(Val(name))
           S == {i \in DOMAIN WASH_TYPE_MAP : Contains(up, WASH_TYPE_MAP[i].key)}
       IN IF S = {} THEN None
          ELSE IF WASH_TYPE_MAP[Min(S)].val \in ALLOWED_WASH_TYPES
               THEN Some(WASH_TYPE_MAP[Min(S)].val) ELSE None

\* infer_location_from_filename: safariexpresswash_<LOCATION>_<digits>_Transaction
infer_location_from_filename(name) ==
  IF name.prefix = "safariexpresswash" /\ name.kind = "Transaction"
  THEN name.location ELSE ""

-----------------------------------------------------------------------------
(***************************************************************************)
(* KIOSK PIPELINE: parse_file.                                             *)
(* The running state of the forward pass is P = [sess, sessions,           *)
(* session_counter]; sess is None or Some(session).                        *)
(***************************************************************************)
new_session(ts) ==
  [ invoice |-> None, first_ts |-> ts, last_ts |-> ts,
    customer_name |-> None, license_plate |-> None,
    wash_package_id |-> None, wash_package_name |-> None,
    payment_type |-> None, payment_type_ts |-> None, image_path |-> None,
    is_unlimited |-> FALSE, unlimited_type |-> None, unlimited_ts |-> None,
    addon_map |-> <<>>, tip_amount |-> 0, tip_ts |-> None,
    discount_code |-> None, discount_amount |-> None,
    tax |-> None, total |-> None ]

\* a variant of end_session in which only a session with an invoice consumes
\* an index
end_session_CountRows(P, ts) ==
  IF IsNone(P.sess) THEN P
  ELSE LET s0 == Val(P.sess)
           s1 == IF IsSome(ts) /\ (IsNone(s0.last_ts) \/ Val(ts) > Val(s0.last_ts))
                 THEN [s0 EXCEPT !.last_ts = ts] ELSE s0
       IN [ sess |-> None,
            sessions |-> Append(P.sessions,
                                [s |-> s1, session_index |-> P.session_counter]),
            session_counter |-> IF IsNone(s1.invoice) THEN P.session_counter
                                ELSE P.session_counter + 1 ]

\* end_session(ts): flush the open session with the next session_index
end_session(P, ts) ==
  IF IsNone(P.sess) THEN P
  ELSE LET s0 == Val(P.sess)
           s1 == IF IsSome(ts) /\ (IsNone(s0.last_ts) \/ Val(ts) > Val(s0.last_ts))
                 THEN [s0 EXCEPT !.last_ts = ts] ELSE s0
       IN [ sess |-> None,
            sessions |-> Append(P.sessions,
                                [s |-> s1, session_index |-> P.session_counter]),
            session_counter |-> P.session_counter + 1 ]

\* a variant of set_unlimited without the type guard: the last marker wins
set_unlimited_LastWins(s, flag_type, ts) ==
  IF IsNone(s.unlimited_ts) \/ (IsSome(ts) /\ Val(ts) >= Val(s.unlimited_ts))
     \/ flag_type = "RECURRING"
  THEN [s EXCEPT !.is_unlimited = TRUE,
                 !.unlimited_type = Some(flag_type),
                 !.unlimited_ts = IF IsSome(ts) THEN ts ELSE @]
  ELSE s

\* set_unlimited(flag_type, ts)
set_unlimited(s, flag_type, ts) ==
  IF IsNone(s.unlimited_ts) \/ (IsSome(ts) /\ Val(ts) >= Val(s.unlimited_ts))
     \/ flag_type = "RECURRING"
  THEN [s EXCEPT !.is_unlimited = TRUE,
                 !.unlimited_type = IF flag_type = "RECURRING" \/ IsNone(@)
                                    THEN Some(flag_type) ELSE @,
                 !.unlimited_ts = IF IsSome(ts) THEN ts ELSE @]
  ELSE s

\* a variant of lines 188-192 that follows the order of arrival: first_ts is
\* the first timestamp seen, last_ts the latest one seen
UpdateTs_ArrivalOrder(s, ts) ==
  IF IsNone(ts) THEN s
  ELSE [s EXCEPT !.first_ts = IF IsNone(@) THEN ts ELSE @, !.last_ts = ts]

\* lines 188-192: first_ts / last_ts from a timestamped line
UpdateTs(s, ts) ==
  IF IsNone(ts) THEN s
  ELSE LET a == IF IsNone(s.first_ts) \/ Val(ts) < Val(s.first_ts)
                THEN [s EXCEPT !.first_ts = ts] ELSE s
       IN IF IsNone(a.last_ts) \/ Val(ts) > Val(a.last_ts)
          THEN [a EXCEPT !.last_ts = ts] ELSE a

\* a variant of the cascade without the `not sess["invoice"]` guard
RECURSIVE InvoiceFold_NotSticky(_, _, _)
InvoiceFold_NotSticky(inv, ms, i) ==
  IF i > Len(ms) THEN inv
  ELSE InvoiceFold_NotSticky(IF IsSome(ms[i]) /\ Val(ms[i]) /= <<0>>
                             THEN ms[i] ELSE inv, ms, i + 1)

\* lines 195-201: the invoice cascade; the comparison is with the string "0"
RECURSIVE InvoiceFold(_, _, _)
InvoiceFold(inv, ms, i) ==
  IF i > Len(ms) THEN inv
  ELSE InvoiceFold(IF IsSome(ms[i]) /\ IsNone(inv) /\ Val(ms[i]) /= <<0>>
                   THEN ms[i] ELSE inv, ms, i + 1)
DetectInvoice(s, toks) ==
  [s EXCEPT !.invoice = InvoiceFold(s.invoice, InvoiceCascade(toks), 1)]

\* lines 204-207
DetectUnlimited(s, toks, ts) ==
  LET a == IF HasText(toks, "NEW CUSTOMER ->") THEN set_unlimited(s, "NEW", ts) ELSE s
  IN IF HasText(toks, "RECURRING ->") THEN set_unlimited(a, "RECURRING", ts) ELSE a

\* lines 210-217: customer name and licence plate, first match sticky.
\* CUSTOMER_NAME_RE captures up to the next comma or the end of the line,
\* LICENSE_PLATE_RE the plate alone
DetectCustomer(s, toks) ==
  LET c == FirstIdx(toks, LAMBDA t : t.k = "CustomerName")
      a == IF /\ c /= 0 /\ RestOfLine(toks, c) /= <<>>
              /\ (IsNone(s.customer_name) \/ Val(s.customer_name) = <<>>)
           THEN [s EXCEPT !.customer_name = Some(RestOfLine(toks, c))] ELSE s
      l == FirstIdx(toks, LAMBDA t : t.k = "LicensePlate")
  IN IF /\ l /= 0 /\ RestOfLine(toks, l) /= <<>>
        /\ (IsNone(a.license_plate) \/ Val(a.license_plate) = <<>>)
     THEN [a EXCEPT !.license_plate =
             Some(UpperWords(SubSeq(RestOfLine(toks, l), 1, 1)))]
     ELSE a

\* lines 220-226: the main wash package
DetectPackage(s, toks) ==
  IF HasText(toks, "ServiceControlViewModel") /\ HasText(toks, "SelectServiceBlock")
     /\ IsSome(WASH_PKG_RE(toks)) /\ ~is_tip_text(Val(WASH_PKG_RE(toks)).name)
  THEN [s EXCEPT !.wash_package_id = Some(Val(WASH_PKG_RE(toks)).id),
                 !.wash_package_name = Some(Val(WASH_PKG_RE(toks)).name)]
  ELSE s

\* addon_map[id] = info on a dict that keeps insertion order
DictSet(map, id, info) ==
  IF \E i \in DOMAIN map : map[i].id = id
  THEN [i \in DOMAIN map |-> IF map[i].id = id THEN [id |-> id, info |-> info]
                             ELSE map[i]]
  ELSE Append(map, [id |-> id, info |-> info])

\* lines 229-240: add-ons, and the tip an add-on name may carry
DetectAddon(s, toks, ts) ==
  IF HasText(toks, "SelectOptionalServiceBlock") /\ IsSome(WASH_PKG_RE(toks))
  THEN LET add_pkg_id == Val(WASH_PKG_RE(toks)).id
           add_name == Val(WASH_PKG_RE(toks)).name
           amt == tip_amount_from_text(add_name)
       IN IF /\ add_name /= <<>>
             /\ Some(add_pkg_id) /= s.wash_package_id
             /\ add_name /= (IF IsNone(s.wash_package_name) THEN <<>>
                             ELSE Val(s.wash_package_name))
          THEN LET a == [s EXCEPT !.addon_map =
                            DictSet(@, add_pkg_id, [name |-> add_name, ts |-> ts])]
               IN IF amt > 0 /\ (IsNone(a.tip_ts)
                                 \/ (IsSome(ts) /\ Val(ts) >= Val(a.tip_ts)))
                  THEN [a EXCEPT !.tip_amount = amt, !.tip_ts = ts] ELSE a
          ELSE s
  ELSE s

\* a variant of the payment rule without the timestamp guard: the last
\* payment line of the file wins
DetectPayment_LastWins(s, toks, ts) ==
  IF HasText(toks, "SaveTransactions") /\ HasSaveTransaction(toks)
     /\ IsSome(PAYMENT_TYPE_RE(toks))
  THEN [s EXCEPT !.payment_type = PAYMENT_TYPE_RE(toks), !.payment_type_ts = ts]
  ELSE s

\* a variant of the payment rule in which a line overwrites only when its
\* timestamp is strictly later than the recorded one
DetectPayment_StrictlyLater(s, toks, ts) ==
  IF HasText(toks, "SaveTransactions") /\ HasSaveTransaction(toks)
     /\ IsSome(PAYMENT_TYPE_RE(toks))
     /\ (IsNone(s.payment_type_ts)
         \/ (IsSome(ts) /\ Val(ts) > Val(s.payment_type_ts)))
  THEN [s EXCEPT !.payment_type = PAYMENT_TYPE_RE(toks), !.payment_type_ts = ts]
  ELSE s

\* lines 243-249: payment type, latest timestamp wins; `ts >= payment_type_ts`
\* lets a line with the recorded timestamp overwrite
DetectPayment(s, toks, ts) ==
  IF HasText(toks, "SaveTransactions") /\ HasSaveTransaction(toks)
     /\ IsSome(PAYMENT_TYPE_RE(toks))
     /\ (IsNone(s.payment_type_ts)
         \/ (IsSome(ts) /\ Val(ts) >= Val(s.payment_type_ts)))
  THEN [s EXCEPT !.payment_type = PAYMENT_TYPE_RE(toks), !.payment_type_ts = ts]
  ELSE s

\* lines 252-268: image path (sticky; AWS_FILE_RE needs at least one character
\* after "Aws File Name"), discount amount, tax, total (overwritten)
DetectMoney(s, toks) ==
  LET f == FirstIdx(toks, LAMBDA t : t.k = "AwsFileName")
      d == FirstIdx(toks, LAMBDA t : t.k = "Discount")
      x == FirstIdx(toks, LAMBDA t : t.k = "Tax")
      o == FirstIdx(toks, LAMBDA t : t.k = "Total")
  IN [s EXCEPT
        !.image_path = IF /\ f /= 0 /\ RestOfLine(toks, f) /= <<>>
                          /\ (IsNone(@) \/ Val(@) = <<>>)
                       THEN Some(RestOfLine(toks, f)) ELSE @,
        !.discount_amount = IF d /= 0 THEN Some(ToInt(toks[d].n)) ELSE @,
        !.tax = IF x /= 0 THEN Some(ToInt(toks[x].n)) ELSE @,
        !.total = IF o /= 0 THEN Some(ToInt(toks[o].n)) ELSE @]

\* lines 271-272: the two close-marker pairs
IsEndMarker(toks) ==
  \/ HasText(toks, "ProceedToCarWashViewModel") /\ HasText(toks, "ReturnToMainScreen")
  \/ HasText(toks, "TransactionMethods") /\ HasText(toks, "ResetTransaction")

\* one iteration of the loop of parse_file over a non-empty line
ProcessLine(P, line) ==
  LET ts == line.ts
      s0 == IF IsNone(P.sess) THEN new_session(ts) ELSE Val(P.sess)
      s1 == UpdateTs(s0, ts)
      s2 == DetectInvoice(s1, line.toks)
      s3 == DetectUnlimited(s2, line.toks, ts)
      s4 == DetectCustomer(s3, line.toks)
      s5 == DetectPackage(s4, line.toks)
      s6 == DetectAddon(s5, line.toks, ts)
      s7 == DetectPayment(s6, line.toks, ts)
      s8 == DetectMoney(s7, line.toks)
      Q  == [P EXCEPT !.sess = Some(s8)]
  IN IF IsEndMarker(line.toks) THEN end_session(Q, ts) ELSE Q

-----------------------------------------------------------------------------
(***************************************************************************)
(* KIOSK PIPELINE: rows, per-file dedup, upsert.                           *)
(***************************************************************************)
DatetimeMin == 0     \* datetime.min: below every timestamp (timestamps are >= 1)

AddonKey(e) == IF IsNone(e.info.ts) THEN DatetimeMin ELSE Val(e.info.ts)

\* sorted(values, key=...): a stable sort, equal keys keep the dict's order
RECURSIVE SortedAddons(_)
SortedAddons(m) ==
  IF m = <<>> THEN <<>>
  ELSE LET x == m[Len(m)]
           r == SortedAddons(SubSeq(m, 1, Len(m) - 1))
           k == Cardinality({i \in DOMAIN r : AddonKey(r[i]) <= AddonKey(x)})
       IN SubSeq(r, 1, k) \o <<x>> \o SubSeq(r, k + 1, Len(r))

\* a variant that renders the add-ons in the dict's order, unsorted
AddonsText_Unsorted(s) ==
  IF s.addon_map = <<>> THEN None
  ELSE Some([i \in DOMAIN s.addon_map |-> s.addon_map[i].info.name])

\* lines 281-284: the "; "-joined names, None when there are none
AddonsText(s) ==
  IF s.addon_map = <<>> THEN None
  ELSE Some([i \in DOMAIN SortedAddons(s.addon_map) |->
               SortedAddons(s.addon_map)[i].info.name])

\* a variant that classifies every unlimited session as a sign-up
InvoiceKind_AlwaysSignup(e) ==
  IF e.s.is_unlimited THEN "SIGNUP" ELSE "NORMAL"

\* lines 286-291
InvoiceKind(e) ==
  IF e.s.is_unlimited
  THEN IF e.session_index = 0 THEN "SIGNUP" ELSE "WASH"
  ELSE "NORMAL"

\* line 278: sessions that produce no row
NoInvoice(e) == IsNone(e.s.invoice) \/ Val(e.s.invoice) = <<>> \/ Val(e.s.invoice) = <<0>>

DateOf(t) == t \div TicksPerDay
TimeOf(t) == t % TicksPerDay

\* lines 293-317: the row of one flushed session
RowOf(e, name, now) ==
  [ bill |-> ToInt(Val(e.s.invoice)),
    wash_ts_first |-> e.s.first_ts, wash_ts_last |-> e.s.last_ts,
    license_plate |-> e.s.license_plate, customer_name |-> e.s.customer_name,
    wash_package_id |-> IF IsSome(e.s.wash_package_id) /\ Val(e.s.wash_package_id) /= <<>>
                        THEN Some(ToInt(Val(e.s.wash_package_id))) ELSE None,
    wash_package_name |-> e.s.wash_package_name,
    wash_type |-> map_wash_type(e.s.wash_package_name),
    payment_type |-> e.s.payment_type, image_path |-> e.s.image_path,
    is_unlimited |-> e.s.is_unlimited, unlimited_type |-> e.s.unlimited_type,
    addons |-> AddonsText(e.s), tip_amount |-> e.s.tip_amount,
    discount_code |-> e.s.discount_code, discount_amount |-> e.s.discount_amount,
    tax |-> e.s.tax, total |-> e.s.total,
    location |-> infer_location_from_filename(name), source_file |-> name,
    created_on |-> DateOf(now), created_at |-> TimeOf(now),
    invoice_kind |-> InvoiceKind(e),
    session_index |-> e.session_index ]   \* kept beside the row, not a column

\* lines 276-318: rows of the flushed sessions, in session order
RECURSIVE BuildRows(_, _, _)
BuildRows(ss, name, now) ==
  IF ss = <<>> THEN <<>>
  ELSE LET r == BuildRows(SubSeq(ss, 1, Len(ss) - 1), name, now)
           e == ss[Len(ss)]
       IN IF NoInvoice(e) THEN r ELSE Append(r, RowOf(e, name, now))

\* the columns of the washify table (session_index is not stored)
Stored(r) ==
  [ c \in (DOMAIN r) \ {"session_index"} |-> r[c] ]

\* a variant of the end of parse_file that flushes the open session
FinalSessions_FlushOpen(P) == end_session(P, None).sessions

\* line 277: the rows are built from the flushed sessions; the session still
\* open at the end of the file is not consulted
FinalSessions(P) == P.sessions

\* lines 466-470: dedup[(bill, source_file)] = r, then list(dedup.values()):
\* the position of the first row of a key, the value of its last row
Dedup(rows) ==
  LET key(r) == <<r.bill, r.source_file>>
      firsts == {i \in DOMAIN rows : \A j \in 1..(i - 1) : key(rows[j]) /= key(rows[i])}
      lastOf(i) == Max({j \in DOMAIN rows : key(rows[j]) = key(rows[i])})
      RECURSIVE pick(_)
      pick(i) == IF i > Len(rows) THEN <<>>
                 ELSE IF i \in firsts THEN <<rows[lastOf(i)]>> \o pick(i + 1)
                 ELSE pick(i + 1)
  IN pick(1)

\* a variant of the statement without ON CONFLICT on a table without a key
UPSERT_SQL_PlainInsert(tbl, row) == tbl \cup {row}

\* UPSERT_SQL: INSERT ... ON CONFLICT (bill) DO UPDATE SET <every column>
UPSERT_SQL(tbl, row) == {r \in tbl : r.bill /= row.bill} \cup {row}

\* NUMERIC(8,2) (lines 337-341): a value of 10^6 or more is out of range and
\* the statement raises "numeric field overflow"
NumericLimit == 1000000
UpsertRaises(row) ==
  \/ row.tip_amount >= NumericLimit
  \/ \E c \in {"discount_amount", "tax", "total"} :
       IsSome(row[c]) /\ Val(row[c]) >= NumericLimit

\* execute_batch raises at the first row whose statement raises; nothing
\* catches it in batch_upsert or main(), the connection is closed uncommitted
BatchRaises(rows) == \E i \in DOMAIN rows : UpsertRaises(Stored(rows[i]))

\* batch_upsert: the statement for each row, in order, then one commit
RECURSIVE batch_upsert(_, _)
batch_upsert(tbl, rows) ==
  IF rows = <<>> THEN tbl
  ELSE batch_upsert(UPSERT_SQL(tbl, Stored(rows[1])), Tail(rows))

-----------------------------------------------------------------------------
(***************************************************************************)
(* KIOSK PIPELINE: the inputs.  A file under test is a sequence of at most *)
(* MaxLines lines drawn from one family of lines.                          *)
(***************************************************************************)
InvTok(d) == Tok("InvoiceID", d, <<>>)
PayTok(w) == Tok("PaymentType", <<>>, <<w>>)
PkgTok(d, name) == Tok("WashPackage", d, name)
CloseToks == << T("TransactionMethods"), T("ResetTransaction") >>

InvoiceLines ==
  { Line(Some(1), << InvTok(<<0>>) >>),
    Line(Some(1), << InvTok(<<0, 0>>) >>),
    Line(Some(1), << InvTok(<<7>>), PayTok("CREDIT") >>),
    Line(Some(2), << T("SaveTransactions"), InvTok(<<5, 5, 0, 1, 9>>), PayTok("CASH") >>),
    Line(Some(2), << Tok("DoTransactionAfterDispatcher", <<9>>, <<>>),
                     T("ProceedToCarWashViewModel"), InvTok(<<8>>) >>),
    Line(Some(3), << T("SaveTransactions"), PayTok("GIFT") >>),
    Line(Some(3), CloseToks),
    Line(None, << T("ProceedToCarWashViewModel"), InvTok(<<7>>),
                  T("ReturnToMainScreen") >>) }

UnlimitedLines ==
  { Line(ts, << T(m) >>) : ts \in {None, Some(1), Some(2)},
                           m \in {"NEW CUSTOMER ->", "RECURRING ->"} }
  \cup
  { Line(Some(2), << InvTok(<<7>>) >> \o CloseToks),
    Line(Some(3), << T("NEW CUSTOMER ->"), InvTok(<<8>>) >> \o CloseToks),
    Line(Some(3), CloseToks) }

AddonLine(ts, d, name) ==
  Line(ts, << T("SelectOptionalServiceBlock"), PkgTok(d, name) >>)

AddonLines ==
  { Line(Some(1), << T("ServiceControlViewModel"), T("SelectServiceBlock"),
                     PkgTok(<<1>>, <<"Best", "Wash", ".">>) >>),
    AddonLine(Some(2), <<2>>, <<"TIRE", "SHINE">>),
    AddonLine(Some(1), <<3>>, <<"WAX">>),
    AddonLine(Some(3), <<3>>, <<"HOT", "WAX">>),
    AddonLine(None, <<2>>, <<"TIRE", "SHINE">>),
    AddonLine(Some(2), <<1>>, <<"Best", "Wash">>),
    Line(Some(3), << T("SelectOptionalServiceBlock"), InvTok(<<7>>) >> \o CloseToks
                  \o << PkgTok(<<4>>, <<"Tip", "2">>) >>),
    Line(Some(3), << InvTok(<<7>>) >> \o CloseToks) }

PaymentLines ==
  { Line(Some(2), << T("SaveTransactions"), PayTok("CREDIT") >>),
    Line(Some(1), << T("SaveTransactions"), PayTok("CASH") >>),
    Line(Some(2), << T("SaveTransactions"), PayTok("CASH") >>),
    Line(None, << T("SaveTransactions"), PayTok("GIFT") >>),
    Line(Some(1), << T("SaveTransactions"), PayTok("GIFT"), InvTok(<<7>>) >>
                  \o CloseToks),
    Line(Some(3), << T("SaveTransaction"), PayTok("DEBIT") >>),
    Line(Some(1), << Tok("CustomerName", <<>>, <<"JOHN", "DOE">>),
                     Tok("LicensePlate", <<>>, <<"abc123">>) >>),
    Line(Some(2), << Tok("Tax", <<1>>, <<>>), Tok("Total", <<1, 2>>, <<>>),
                     Tok("Discount", <<2>>, <<>>),
                     Tok("AwsFileName", <<>>, <<"img1.jpg">>) >>),
    BadTsLine(<< InvTok(<<7>>) >>),
    Line(Some(2), << InvTok(<<7>>) >> \o CloseToks),
    Line(Some(3), << Tok("Total", <<1, 0, 0, 0, 0, 0, 0>>, <<>>), InvTok(<<8>>) >>
                  \o CloseToks) }

PackageLine(ts, d, name) ==
  Line(ts, << T("ServiceControlViewModel"), T("SelectServiceBlock"), PkgTok(d, name) >>)

PackageLines ==
  { PackageLine(Some(1), <<1>>, <<"Interior", "Super">>),
    PackageLine(Some(1), <<2>>, <<"Better", "Wash", "Best", "Wash">>),
    PackageLine(Some(2), <<3>>, <<"Good", "Wash", "Interior", "Sup", ".">>),
    PackageLine(Some(2), <<4>>, <<"Basic", "Wash">>),
    PackageLine(Some(2), <<5>>, <<"WAX">>),
    Line(Some(3), << InvTok(<<7>>) >> \o CloseToks),
    Line(Some(3), << InvTok(<<8>>) >> \o CloseToks) }

KFamilies == {"invoice", "unlimited", "addon", "payment", "package"}
KLines(f) == IF f = "invoice" THEN InvoiceLines
             ELSE IF f = "unlimited" THEN UnlimitedLines
             ELSE IF f = "addon" THEN AddonLines
             ELSE IF f = "payment" THEN PaymentLines
             ELSE PackageLines

\* the name of the file under test
KFileName == [prefix |-> "safariexpresswash", location |-> "FRA", kind |-> "Transaction"]

-----------------------------------------------------------------------------
(***************************************************************************)
(* KIOSK PIPELINE: main().                                                 *)
(***************************************************************************)
PState == [sess |-> sess, sessions |-> sessions, session_counter |-> session_counter]

KInit ==
  /\ kpc = "idle"
  /\ kfamily \in KFamilies
  /\ from_s3 \in BOOLEAN
  /\ kobj = TRUE
  /\ kfile = <<>>
  /\ sess = None
  /\ sessions = <<>>
  /\ session_counter = 0
  /\ washify = {}
  /\ washify1 = {}
  /\ kexits = <<>>
  /\ kpos = 0
  /\ clock = 0
  /\ klast = <<>>

\* main(), lines 445-460, and the start of parse_file: the input is the local
\* file (INPUT_PATH) or the newest matching S3 object
KStart ==
  /\ UNCHANGED <<lvars, rvars, tvars>>
  /\ kpc = "idle"
  /\ Len(kexits) < MaxRuns
  /\ kobj
  /\ kpc' = "parsing"
  /\ sess' = None
  /\ sessions' = <<>>
  /\ session_counter' = 0
  /\ kpos' = 0
  /\ clock' = clock + 1
  /\ UNCHANGED <<kfamily, from_s3, kobj, kfile, washify, washify1, kexits, klast>>

\* main(), lines 452-455: no matching object in S3
KNoFile ==
  /\ UNCHANGED <<lvars, rvars, tvars>>
  /\ kpc = "idle"
  /\ Len(kexits) < MaxRuns
  /\ from_s3 /\ ~kobj
  /\ kexits' = Append(kexits, "nofile")
  /\ clock' = clock + 1
  /\ UNCHANGED <<kpc, kfamily, from_s3, kobj, kfile, sess, sessions, session_counter,
                 washify, washify1, kpos, klast>>

\* one iteration of the loop of parse_file.  In the first run the file is
\* revealed line by line; later runs read the same lines again.
KLineStep(line) ==
  IF line.bad
  THEN \* parse_ts: strptime raises ValueError; nothing catches it, main() dies
       /\ kpc' = "idle"
       /\ kexits' = Append(kexits, "crash")
       /\ kpos' = kpos + 1
       /\ UNCHANGED <<sess, sessions, session_counter>>
  ELSE /\ sess' = ProcessLine(PState, line).sess
       /\ sessions' = ProcessLine(PState, line).sessions
       /\ session_counter' = ProcessLine(PState, line).session_counter
       /\ kpos' = kpos + 1
       /\ UNCHANGED <<kpc, kexits>>

KReadNewLine ==
  /\ UNCHANGED <<lvars, rvars, tvars>>
  /\ kpc = "parsing"
  /\ kexits = <<>>
  /\ kpos = Len(kfile)
  /\ Len(kfile) < MaxLines
  /\ \E line \in KLines(kfamily) :
       /\ kfile' = Append(kfile, line)
       /\ KLineStep(line)
  /\ UNCHANGED <<kfamily, from_s3, kobj, washify, washify1, clock, klast>>

KReadLine ==
  /\ UNCHANGED <<lvars, rvars, tvars>>
  /\ kpc = "parsing"
  /\ kpos < Len(kfile)
  /\ KLineStep(kfile[kpos + 1])
  /\ UNCHANGED <<kfamily, from_s3, kobj, kfile, washify, washify1, clock, klast>>

\* end of file: parse_file builds its rows; main() dedups, upserts, commits and,
\* for an S3 input, deletes the object (lines 276-318, 462-484)
KFinish ==
  /\ UNCHANGED <<lvars, rvars, tvars>>
  /\ kpc = "parsing"
  /\ kpos = Len(kfile)
  /\ LET rows == BuildRows(FinalSessions(PState), KFileName, clock)
         final_rows == Dedup(rows)
     IN /\ klast' = rows
        /\ IF BatchRaises(final_rows)
           THEN \* the exception leaves main(): no commit, no delete
                /\ UNCHANGED <<washify, kobj>>
                /\ washify1' = IF kexits = <<>> THEN washify ELSE washify1
                /\ kexits' = Append(kexits, "upsert_failed")
           ELSE /\ washify' = batch_upsert(washify, final_rows)
                /\ washify1' = IF kexits = <<>> THEN batch_upsert(washify, final_rows)
                               ELSE washify1
                /\ kobj' = IF from_s3 THEN FALSE ELSE kobj
                /\ kexits' = Append(kexits, "ok")
  /\ kpc' = "idle"
  /\ UNCHANGED <<kfamily, from_s3, kfile, sess, sessions, session_counter, kpos, clock>>

KNext == KStart \/ KNoFile \/ KReadNewLine \/ KReadLine \/ KFinish

\* the kiosk pipeline at rest, for the specifications of the other pipelines
KIdle ==
  /\ kpc = "idle" /\ kfamily = "invoice" /\ from_s3 = FALSE /\ kobj = TRUE
  /\ kfile = <<>> /\ sess = None /\ sessions = <<>> /\ session_counter = 0
  /\ washify = {} /\ washify1 = {} /\ kexits = <<>> /\ kpos = 0 /\ clock = 0
  /\ klast = <<>>

-----------------------------------------------------------------------------
(***************************************************************************)
(* LOADER PIPELINE: text layer.                                            *)
(* A line of a loader log is [k, date, time, n]:                           *)
(*   k = "ts":   "<date> <time>[ AM|PM], ..." (date a day number; time     *)
(*               [h, ok, ampm]: the hour as written, whether H:M:S is a    *)
(*               valid time of day, the AM/PM marker or "")                *)
(*   k = "inv":  "... Invoice Id <n> ..." (n the digits as written)        *)
(*   k = "text": any other non-empty line                                  *)
(***************************************************************************)
NoTime == [h |-> 0, ok |-> FALSE, ampm |-> ""]
TsLine(d, h, ok, ampm) ==
  [k |-> "ts", date |-> d, time |-> [h |-> h, ok |-> ok, ampm |-> ampm], n |-> <<>>]
InvLine(n) == [k |-> "inv", date |-> 0, time |-> NoTime, n |-> n]
TextLine == [k |-> "text", date |-> 0, time |-> NoTime, n |-> <<>>]

\* normalize_time, after the AM / PM marker was removed from the text:
\* the hour as written, zero-padded; None when the text is no H:M:S
normalize_time(t) == IF t.ok THEN Some(t.h) ELSE None

\* `"Invoice Id <bill>" in line`: a substring test, so the digits of the bill
\* need only begin the number on the line
MatchesLastPattern(line, bill) == line.k = "inv" /\ IsPrefix(ToDigits(bill), line.n)

\* lines 106-115: start_index, 0-based; the search runs backwards, so the last
\* matching line decides
TailSeek(lines, lb) ==
  IF IsNone(lb) \/ Val(lb) = 0 THEN 0
  ELSE LET S == {idx \in 0..(Len(lines) - 1) : MatchesLastPattern(lines[idx + 1], Val(lb))}
       IN IF S = {} THEN 0 ELSE Max(S) - (Max(S) % 4)

\* get_last_processed_bill: the rows that ORDER BY log_dt DESC, log_time DESC
\* LIMIT 1 may return
LatestRows(tbl) ==
  {r \in tbl : \A q \in tbl : \/ q.log_dt < r.log_dt
                              \/ (q.log_dt = r.log_dt /\ q.log_time <= r.log_time)}

\* lines 130-151: the fields of the block at 0-based index i, None when the
\* parse raises (no "<date> <time>", unparseable time, no Invoice Id on line
\* 1 or line 3 of the block)
ParseBlock(lines, i) ==
  LET line1 == lines[i + 1]
      line2 == lines[i + 2]
      line4 == lines[i + 4]
  IN IF /\ line1.k = "ts" /\ IsSome(normalize_time(line1.time))
        /\ line2.k = "inv" /\ line4.k = "inv"
     THEN Some([ bill |-> ToInt(line2.n), washify_rec |-> ToInt(line4.n),
                 date_part |-> line1.date,
                 time_part |-> Val(normalize_time(line1.time)) ])
     ELSE None

\* a variant of the statement without the condition on status
UpdateSuper_NoStatusGuard(tbl, b) ==
  { IF r.bill = b.bill /\ r.created_on = b.date_part /\ r.location = "FRA"
    THEN [r EXCEPT !.status = Some(3), !.prep_end = Some(b.time_part),
                   !.status_desc = Some("Wash")]
    ELSE r : r \in tbl }

\* lines 169-178: UPDATE super ... WHERE bill, created_on, location = 'FRA'
\* and (status IS NULL OR status < 3)
UpdateSuper(tbl, b) ==
  { IF /\ r.bill = b.bill /\ r.created_on = b.date_part /\ r.location = "FRA"
       /\ (IsNone(r.status) \/ Val(r.status) < 3)
    THEN [r EXCEPT !.status = Some(3), !.prep_end = Some(b.time_part),
                   !.status_desc = Some("Wash")]
    ELSE r : r \in tbl }

\* lines 182-189: UPDATE tunnel ... WHERE bill, created_on, location = 'FRA'
UpdateTunnel(tbl, b) ==
  { IF r.bill = b.bill /\ r.created_on = b.date_part /\ r.location = "FRA"
    THEN [r EXCEPT !.load = TRUE, !.load_time = Some(b.time_part)]
    ELSE r : r \in tbl }

\* line 204: the file is deleted when no block raised
DeleteGate(fs) == fs

\* a variant of the loop in which a block that raised ends the walk of the
\* file of n lines
AfterBlock_StopOnError(i, raised, n) == IF raised THEN n ELSE i + 4

\* line 197: i += 4, after the try statement: whether or not the block raised
AfterBlock(i, raised, n) == i + 4

-----------------------------------------------------------------------------
(***************************************************************************)
(* LOADER PIPELINE: the inputs.  The tunnel controller appends one block   *)
(* of 4 lines per load event to its log; its clock advances with every     *)
(* block.  Uploads put a snapshot of the log into the dated folder.        *)
(***************************************************************************)
LDay == 1     \* the day number of the dated folder and of the log's lines

\* the blocks the controller may log at hour h
LBlockKinds == {"b1", "b10", "b2", "badtime", "noinv"}
LBlockLines(kind, h) ==
  IF kind = "b1" THEN << TsLine(LDay, h, TRUE, "AM"), InvLine(<<1>>), TextLine, InvLine(<<2, 1>>) >>
  ELSE IF kind = "b10" THEN << TsLine(LDay, h, TRUE, ""), InvLine(<<1, 0>>), TextLine, InvLine(<<2, 2>>) >>
  ELSE IF kind = "b2" THEN << TsLine(LDay, h, TRUE, "PM"), InvLine(<<2>>), TextLine, InvLine(<<1>>) >>
  ELSE IF kind = "badtime" THEN << TsLine(LDay, h, FALSE, ""), InvLine(<<4>>), TextLine, InvLine(<<2, 4>>) >>
  ELSE << TsLine(LDay, h, TRUE, ""), TextLine, TextLine, InvLine(<<2, 5>>) >>

SuperRow(b, st) == [ bill |-> b, created_on |-> LDay, location |-> "FRA",
                     status |-> st, prep_end |-> None, status_desc |-> None ]
TunnelRow(b, loc) == [ bill |-> b, created_on |-> LDay, location |-> loc,
                       load |-> FALSE, load_time |-> None ]

\* the super table before the first run: bills at every stage, one of them
\* at another location
SuperRows0 ==
  { SuperRow(1, None), SuperRow(10, Some(1)), SuperRow(2, Some(5)),
    [SuperRow(1, Some(1)) EXCEPT !.location = "NSH"] }

LProcs == 1..MaxLRuns

\* process_folder before its first statement
LIdleRun ==
  [ pc |-> "none", lines |-> <<>>, last_bill |-> None, start_index |-> 0, i |-> 0,
    full_success |-> TRUE, inserted_count |-> 0, ops |-> <<>>, pre |-> {},
    deleted |-> FALSE, exit |-> "" ]

LInit ==
  /\ ldevice = <<>>
  /\ lobj = None
  /\ loader_log = <<>>
  /\ super_t = SuperRows0
  /\ tunnel_t = { TunnelRow(1, "FRA"), TunnelRow(10, "FRA"), TunnelRow(2, "FRA"),
                  TunnelRow(1, "NSH") }
  /\ heartbeat = 0
  /\ lrun = [p \in LProcs |-> LIdleRun]
  /\ lfails = 0
  /\ lunprocessed = {}

\* the rows of loader_log
LRows == {loader_log[x] : x \in DOMAIN loader_log}

\* the controller logs one more load event
LLogBlock ==
  /\ UNCHANGED <<kvars, rvars, tvars>>
  /\ Len(ldevice) < 4 * MaxBlocks
  /\ \E kind \in LBlockKinds :
       ldevice' = ldevice \o LBlockLines(kind, Len(ldevice) \div 4 + 1)
  /\ UNCHANGED <<lobj, loader_log, super_t, tunnel_t, heartbeat, lrun, lfails,
                 lunprocessed>>

\* the log is uploaded to the dated folder, whatever the loader is doing; a
\* snapshot taken while the controller is writing a block misses the block's
\* last line
LUpload ==
  /\ UNCHANGED <<kvars, rvars, tvars>>
  /\ ldevice /= <<>>
  /\ \E cut \in {0, 1} :
       /\ lobj /= Some(SubSeq(ldevice, 1, Len(ldevice) - cut))
       /\ lobj' = Some(SubSeq(ldevice, 1, Len(ldevice) - cut))
  /\ lunprocessed' = IF IsNone(lobj) THEN {} ELSE lunprocessed
  /\ UNCHANGED <<ldevice, loader_log, super_t, tunnel_t, heartbeat, lrun, lfails>>

-----------------------------------------------------------------------------
(***************************************************************************)
(* LOADER PIPELINE: process_files / process_folder.  app.py starts one     *)
(* process per POST /loader and does not wait for it, so processes may     *)
(* overlap.  Each action is one call to S3 or to the database (a statement *)
(* with its commit) and the local steps that follow it.                    *)
(***************************************************************************)
Op(p, name, b) == [op |-> name, i |-> lrun[p].i, bill |-> b.bill]
\* the entry of ops for a statement that raised
RaisedOp == [ select |-> "select_raised", insert |-> "insert_raised",
              super |-> "super_raised", tunnel |-> "tunnel_raised" ]

\* the block at i of the lines process p walks
LBlockOf(p) == ParseBlock(lrun[p].lines, lrun[p].i)

\* the except branch of the loop body (lines 192-197) after a statement of the
\* block raised: rollback, full_success = False, next block
LExcept(p, name) ==
  /\ lfails < MaxDbFailures
  /\ lfails' = lfails + 1
  /\ lrun' = [lrun EXCEPT ![p] =
               [@ EXCEPT !.pc = "block", !.full_success = FALSE,
                         !.ops = Append(@, Op(p, RaisedOp[name], Val(LBlockOf(p)))),
                         !.i = AfterBlock(lrun[p].i, TRUE, Len(lrun[p].lines))]]

\* process_files starts; process_folder lists today's folder (lines 218-225,
\* 79-85): without a .txt object it returns
LList(p) ==
  /\ UNCHANGED <<kvars, rvars, tvars>>
  /\ lrun[p].pc = "none"
  /\ p > 1 => lrun[p - 1].pc /= "none"
  /\ lrun' = [lrun EXCEPT ![p] =
               [@ EXCEPT !.pc = IF IsNone(lobj) THEN "list2" ELSE "last_bill"]]
  /\ UNCHANGED <<ldevice, lobj, loader_log, super_t, tunnel_t, heartbeat, lfails,
                 lunprocessed>>

\* get_last_processed_bill (line 88)
LLastBill(p) ==
  /\ UNCHANGED <<kvars, rvars, tvars>>
  /\ lrun[p].pc = "last_bill"
  /\ \E lb \in (IF loader_log = <<>> THEN {None}
                ELSE {Some(r.bill) : r \in LatestRows(LRows)}) :
       lrun' = [lrun EXCEPT ![p] =
                 [@ EXCEPT !.pc = "get", !.last_bill = lb,
                           !.pre = {r.bill : r \in LRows}]]
  /\ UNCHANGED <<ldevice, lobj, loader_log, super_t, tunnel_t, heartbeat, lfails,
                 lunprocessed>>

\* get_object and the tail-seek (lines 98-119).  When the object was deleted
\* since the listing get_object raises NoSuchKey; nothing catches it before
\* the last lines of the script, the process ends without a heartbeat row
LGet(p) ==
  /\ UNCHANGED <<kvars, rvars, tvars>>
  /\ lrun[p].pc = "get"
  /\ lrun' = [lrun EXCEPT ![p] =
               IF IsNone(lobj)
               THEN [@ EXCEPT !.pc = "done", !.exit = "crash"]
               ELSE [@ EXCEPT !.pc = "block", !.lines = Val(lobj),
                              !.start_index = TailSeek(Val(lobj), lrun[p].last_bill),
                              !.i = TailSeek(Val(lobj), lrun[p].last_bill),
                              !.full_success = TRUE, !.inserted_count = 0]]
  /\ UNCHANGED <<ldevice, lobj, loader_log, super_t, tunnel_t, heartbeat, lfails,
                 lunprocessed>>

\* the start of an iteration on a complete block (lines 124-155): the parse of
\* the block, then SELECT 1 FROM loader_log WHERE bill = ...
LSelect(p, raises) ==
  /\ UNCHANGED <<kvars, rvars, tvars>>
  /\ lrun[p].pc = "block"
  /\ lrun[p].i < Len(lrun[p].lines)
  /\ lrun[p].i + 3 < Len(lrun[p].lines)
  /\ IF IsNone(LBlockOf(p))
     THEN \* the parse raised: except branch
          /\ ~raises
          /\ lrun' = [lrun EXCEPT ![p] =
                       [@ EXCEPT !.full_success = FALSE,
                                 !.i = AfterBlock(lrun[p].i, TRUE, Len(lrun[p].lines))]]
          /\ lunprocessed' = lunprocessed \cup {lrun[p].i}
          /\ UNCHANGED lfails
     ELSE IF raises
     THEN /\ LExcept(p, "select")
          /\ lunprocessed' = lunprocessed \cup {lrun[p].i}
     ELSE /\ lrun' = [lrun EXCEPT ![p] =
                       [@ EXCEPT !.pc = IF \E r \in LRows : r.bill = Val(LBlockOf(p)).bill
                                        THEN "super" ELSE "insert"]]
          /\ UNCHANGED <<lfails, lunprocessed>>
  /\ UNCHANGED <<ldevice, lobj, loader_log, super_t, tunnel_t, heartbeat>>

\* lines 157-164: the SELECT found no row: INSERT INTO loader_log, commit
LInsert(p, raises) ==
  /\ UNCHANGED <<kvars, rvars, tvars>>
  /\ lrun[p].pc = "insert"
  /\ IF raises
     THEN /\ LExcept(p, "insert")
          /\ lunprocessed' = lunprocessed \cup {lrun[p].i}
          /\ UNCHANGED loader_log
     ELSE LET b == Val(LBlockOf(p))
          IN /\ loader_log' = Append(loader_log,
                                [ bill |-> b.bill, washify_rec |-> b.washify_rec,
                                  log_dt |-> b.date_part, log_time |-> b.time_part ])
             /\ lrun' = [lrun EXCEPT ![p] =
                          [@ EXCEPT !.pc = "super", !.inserted_count = @ + 1,
                                    !.ops = Append(@, Op(p, "insert", b))]]
             /\ UNCHANGED <<lfails, lunprocessed>>
  /\ UNCHANGED <<ldevice, lobj, super_t, tunnel_t, heartbeat>>

\* lines 168-179: UPDATE super, commit
LSuper(p, raises) ==
  /\ UNCHANGED <<kvars, rvars, tvars>>
  /\ lrun[p].pc = "super"
  /\ IF raises
     THEN /\ LExcept(p, "super")
          /\ UNCHANGED super_t
     ELSE /\ super_t' = UpdateSuper(super_t, Val(LBlockOf(p)))
          /\ lrun' = [lrun EXCEPT ![p] =
                       [@ EXCEPT !.pc = "tunnel",
                                 !.ops = Append(@, Op(p, "super", Val(LBlockOf(p))))]]
          /\ UNCHANGED lfails
  /\ UNCHANGED <<ldevice, lobj, loader_log, tunnel_t, heartbeat, lunprocessed>>

\* lines 181-190, 197: UPDATE tunnel, commit, i += 4
LTunnel(p, raises) ==
  /\ UNCHANGED <<kvars, rvars, tvars>>
  /\ lrun[p].pc = "tunnel"
  /\ IF raises
     THEN /\ LExcept(p, "tunnel")
          /\ UNCHANGED <<tunnel_t, lunprocessed>>
     ELSE /\ tunnel_t' = UpdateTunnel(tunnel_t, Val(LBlockOf(p)))
          /\ lrun' = [lrun EXCEPT ![p] =
                       [@ EXCEPT !.pc = "block",
                                 !.ops = Append(@, Op(p, "tunnel", Val(LBlockOf(p)))),
                                 !.i = AfterBlock(lrun[p].i, FALSE, Len(lrun[p].lines))]]
          /\ lunprocessed' = lunprocessed \ {lrun[p].i}
          /\ UNCHANGED lfails
  /\ UNCHANGED <<ldevice, lobj, loader_log, super_t, heartbeat>>

\* the loop ends (past the last line, or at an incomplete block: `break`); the
\* object under the key is deleted when full_success (lines 124-128,
\* 199-211).  delete_object may raise: the except of line 208 keeps the object
LDelete(p, raises) ==
  /\ UNCHANGED <<kvars, rvars, tvars>>
  /\ lrun[p].pc = "block"
  /\ (lrun[p].i >= Len(lrun[p].lines) \/ lrun[p].i + 3 >= Len(lrun[p].lines))
  /\ raises => DeleteGate(lrun[p].full_success) /\ lfails < MaxDbFailures
  /\ lfails' = IF raises THEN lfails + 1 ELSE lfails
  /\ lobj' = IF DeleteGate(lrun[p].full_success) /\ ~raises THEN None ELSE lobj
  /\ lrun' = [lrun EXCEPT ![p] =
               [@ EXCEPT !.pc = "list2",
                         !.deleted = DeleteGate(lrun[p].full_success) /\ ~raises]]
  /\ UNCHANGED <<ldevice, loader_log, super_t, tunnel_t, heartbeat, lunprocessed>>

\* process_folder lists yesterday's folder, which holds no object (lines 225,
\* 82-85)
LList2(p) ==
  /\ UNCHANGED <<kvars, rvars, tvars>>
  /\ lrun[p].pc = "list2"
  /\ lrun' = [lrun EXCEPT ![p] = [@ EXCEPT !.pc = "heartbeat"]]
  /\ UNCHANGED <<ldevice, lobj, loader_log, super_t, tunnel_t, heartbeat, lfails,
                 lunprocessed>>

\* the heartbeat row (lines 227-239); when the INSERT raises the except of line
\* 235 prints and the process goes on to close its connection
LHeartbeat(p, raises) ==
  /\ UNCHANGED <<kvars, rvars, tvars>>
  /\ lrun[p].pc = "heartbeat"
  /\ raises => lfails < MaxDbFailures
  /\ lfails' = IF raises THEN lfails + 1 ELSE lfails
  /\ heartbeat' = IF raises THEN heartbeat ELSE heartbeat + 1
  /\ lrun' = [lrun EXCEPT ![p] = [@ EXCEPT !.pc = "done", !.exit = "ok"]]
  /\ UNCHANGED <<ldevice, lobj, loader_log, super_t, tunnel_t, lunprocessed>>

\* the process ends (lines 242-247): its locals are gone, and with them the
\* record of what the run did
LExit(p) ==
  /\ UNCHANGED <<kvars, rvars, tvars>>
  /\ lrun[p].pc = "done"
  /\ lrun' = [lrun EXCEPT ![p] = [LIdleRun EXCEPT !.pc = "exited"]]
  /\ UNCHANGED <<ldevice, lobj, loader_log, super_t, tunnel_t, heartbeat, lfails,
                 lunprocessed>>

LNext ==
  \/ LLogBlock
  \/ LUpload
  \/ \E p \in LProcs : LList(p)
  \/ \E p \in LProcs : LLastBill(p)
  \/ \E p \in LProcs : LGet(p)
  \/ \E p \in LProcs, raises \in BOOLEAN : LSelect(p, raises)
  \/ \E p \in LProcs, raises \in BOOLEAN : LInsert(p, raises)
  \/ \E p \in LProcs, raises \in BOOLEAN : LSuper(p, raises)
  \/ \E p \in LProcs, raises \in BOOLEAN : LTunnel(p, raises)
  \/ \E p \in LProcs, raises \in BOOLEAN : LDelete(p, raises)
  \/ \E p \in LProcs : LList2(p)
  \/ \E p \in LProcs, raises \in BOOLEAN : LHeartbeat(p, raises)
  \/ \E p \in LProcs : LExit(p)

-----------------------------------------------------------------------------
(***************************************************************************)
(* RTC PIPELINE: text layer.                                               *)
(* The content of an RTC log is the sequence of its candidate lines (the   *)
(* pieces parse_rtc_log splits it into, one per timestamp header).  A      *)
(* candidate line is [dateok, t, dir, id, sep, pkg]:                       *)
(*   dateok, t  whether the header is a calendar date; its time            *)
(*   dir        the direction as written: "recv", "send", "RECV"           *)
(*   id         the digits written after "->" (<<>>: none, no match)       *)
(*   sep        what separates id from the package number that follows:    *)
(*              "sp" plain spaces, "tag" markup / newline / no-break space,*)
(*              "" nothing follows                                         *)
(*   pkg        the digits of the package number                           *)
(* An S3 key is the sequence of its "/"-separated segments; no segment of  *)
(* the model ends in "rtc" except the segment "rtc" itself, so a substring *)
(* test for "rtc/" is a test for a non-final segment "rtc".                *)
(***************************************************************************)
Chunk(dateok, t, dir, id, sep, pkg) ==
  [dateok |-> dateok, t |-> t, dir |-> dir, id |-> id, sep |-> sep, pkg |-> pkg]

\* ts_pattern (line 84): IGNORECASE, so "RECV" matches (send|recv); the wash id
\* is a non-empty run of digits
ts_pattern(c) == c.dir \in {"recv", "send", "RECV"} /\ c.id /= <<>>

\* line 56 removes every plain space before the pattern is applied: digits
\* that only spaces separated from the wash id become part of the wash id
\* (group 5) and there is no group 6; other separators become one space at
\* lines 57-61 and the digits after them are group 6
Group5(c) == IF c.sep = "sp" THEN c.id \o c.pkg ELSE c.id
Group6(c) == IF c.sep = "tag" /\ c.pkg /= <<>> THEN Some(c.pkg) ELSE None

\* lines 94-111: one entry of a matching line
Entry(c) ==
  [ wash_id |-> Group5(c),
    washpkgnum |-> IF IsSome(Group6(c)) THEN Some(ToInt(Val(Group6(c)))) ELSE None,
    wash_ts |-> IF c.dateok THEN Some(c.t) ELSE None,
    direction |-> c.dir ]

RECURSIVE parse_rtc_log(_)
parse_rtc_log(content) ==
  IF content = <<>> THEN <<>>
  ELSE (IF ts_pattern(Head(content)) THEN <<Entry(Head(content))>> ELSE <<>>)
       \o parse_rtc_log(Tail(content))

\* a variant of the filter that keeps every entry
RecvEntries_All(entries) == entries

\* line 203
RecvEntries(entries) == SelectSeq(entries, LAMBDA e : e.direction = "recv")

\* "rtc/" occurs in the key at segment i
RtcSlashAt(key, i) == i < Len(key) /\ key[i] = "rtc"
\* line 131: "rtc/unparsed/" in key
InUnparsed(key) ==
  \E i \in 1..Len(key) : RtcSlashAt(key, i) /\ i + 1 < Len(key) /\ key[i + 1] = "unparsed"
\* line 134: key.replace("rtc/", "rtc/unparsed/", 1)
NewKey(key) ==
  IF \E i \in 1..Len(key) : RtcSlashAt(key, i)
  THEN LET i == Min({j \in 1..Len(key) : RtcSlashAt(key, j)})
       IN SubSeq(key, 1, i) \o <<"unparsed">> \o SubSeq(key, i + 1, Len(key))
  ELSE key

\* upload_unparsed_file (lines 128-138): the set of objects after the call
upload_unparsed_file(objs, key) ==
  IF InUnparsed(key) THEN objs ELSE objs \cup {NewKey(key)}

\* line 221: the loop stops at two consecutive existing entries
EarlyStop_Three(consecutive_exists) == consecutive_exists >= 3
EarlyStop(consecutive_exists) == consecutive_exists >= 2

\* a variant of the end of main() that deletes the source object only when
\* the run inserted a row
DeleteAfterLoop_IfInserted(n) == n > 0

\* lines 258-266: inserted_count (n) only selects the message printed; the
\* delete_object call that follows is not conditional
DeleteAfterLoop(n) == TRUE

\* lines 229-230: SELECT 1 FROM rtc_log WHERE wash_id = ...; the statement sees
\* the committed rows and the rows its own transaction has inserted
Exists(committed, pending, wash_id) ==
  \E j \in 1..Len(committed \o pending) : (committed \o pending)[j].wash_id = wash_id

\* the columns of the INSERT of lines 239-249 that come from the entry
RtcRow(e) == [ wash_id |-> e.wash_id, washpkgnum |-> e.washpkgnum,
               wash_ts |-> e.wash_ts, direction |-> e.direction ]

-----------------------------------------------------------------------------
(***************************************************************************)
(* RTC PIPELINE: the inputs.                                               *)
(***************************************************************************)
RECURSIVE SeqsUpTo(_, _)
SeqsUpTo(S, n) ==
  IF n = 0 THEN {<<>>}
  ELSE SeqsUpTo(S, n - 1) \cup
       {Append(q, x) : q \in {p \in SeqsUpTo(S, n - 1) : Len(p) = n - 1}, x \in S}

RecvLine(d) == Chunk(TRUE, 1, "recv", <<d>>, "", <<>>)
\* logs of the duplicate-run family: recv events of three washes
DupLines == {RecvLine(1), RecvLine(2), RecvLine(3)}
\* logs of the mixed family
MixedLines ==
  { Chunk(TRUE, 1, "recv", <<1>>, "sp", <<3>>),     \* "recv-> 1 3"
    Chunk(TRUE, 1, "recv", <<1>>, "tag", <<3>>),    \* "recv-> <id>1</id><pkg>3</pkg>"
    Chunk(TRUE, 2, "send", <<2>>, "", <<>>),        \* "send-> 2"
    Chunk(TRUE, 2, "RECV", <<3>>, "", <<>>),        \* "RECV-> 3"
    Chunk(TRUE, 3, "recv", <<>>, "", <<>>),         \* "recv-> abc"
    Chunk(FALSE, 3, "recv", <<2>>, "", <<>>) }      \* "Nov 31 2025 - ...recv-> 2"

RKeys == { <<"rtc", "a">>, <<"rtc", "unparsed", "a">>, <<"logs", "a">>,
           <<"logs", "rtc", "a">> }

\* the rows of washes already in rtc_log
OldRow(d) == RtcRow(Entry(RecvLine(d)))

\* the inputs: the log, the key it is uploaded under, the rows in storage
RInputs ==
  { [file |-> f, key |-> <<"rtc", "a">>, db |-> db] :
      f \in SeqsUpTo(DupLines, MaxEvents) \ {<<>>},
      db \in {<<>>, <<OldRow(3)>>} }
  \cup
  { [file |-> f, key |-> k, db |-> db] :
      f \in SeqsUpTo(MixedLines, MaxChunks), k \in RKeys, db \in {<<>>, <<OldRow(1)>>} }

RProcs == 1..MaxRtcRuns

\* the locals of a run of main() that has not started
RIdleRun ==
  [ pc |-> "idle", exit |-> "", key |-> <<>>, recv_entries |-> <<>>, idx |-> 1,
    consecutive_exists |-> 0, inserted_count |-> 0, pending |-> <<>>,
    aborted |-> FALSE, checked |-> <<>>, pre |-> {},
    committed |-> <<>>, deleted |-> FALSE, delete_raised |-> FALSE ]

RInit ==
  \E inp \in RInputs :
    /\ rfile = inp.file
    /\ rsrc = inp.key
    /\ s3_keys = {inp.key}
    /\ rtc_log = inp.db
    /\ rrun = [r \in RProcs |-> RIdleRun]
    /\ rfails = 0
    /\ ruploads = <<>>
    /\ rtmp = FALSE

\* the RTC pipeline at rest, for the specifications of the other pipelines
RIdle ==
  /\ rfile = <<>> /\ rsrc = <<"rtc", "a">> /\ s3_keys = {} /\ rtc_log = <<>>
  /\ rrun = [r \in RProcs |-> RIdleRun] /\ rfails = 0 /\ ruploads = <<>>
  /\ rtmp = FALSE

-----------------------------------------------------------------------------
(***************************************************************************)
(* RTC PIPELINE: main().  app.py starts one process per POST /rtc and does *)
(* not wait for it, so runs may overlap.  Each run has its own connection: *)
(* its INSERTs are visible to the others only after its commit.            *)
(***************************************************************************)
\* main(), lines 179-186: download_from_s3 writes the object to
\* /tmp/<basename of the key>; a missing object makes it return None
RDownload(r) ==
  /\ UNCHANGED <<kvars, lvars, tvars>>
  /\ rrun[r].pc = "idle"
  /\ \A q \in RProcs : q < r => rrun[q].pc /= "idle"
  /\ \E key \in s3_keys \cup {rsrc} :
       IF key \notin s3_keys
       THEN /\ rrun' = [rrun EXCEPT ![r] = [@ EXCEPT !.pc = "done", !.exit = "nofile",
                                                     !.key = key]]
            /\ UNCHANGED rtmp
       ELSE /\ rrun' = [rrun EXCEPT ![r] = [@ EXCEPT !.pc = "open", !.key = key]]
            /\ rtmp' = TRUE
  /\ UNCHANGED <<rfile, rsrc, s3_keys, rtc_log, rfails, ruploads>>

\* lines 189-215: open and read the temporary file, decode, parse, filter, and
\* connect to the database when there are recv entries.  open() raises
\* FileNotFoundError outside any try when another process has removed the file
ROpen(r) ==
  /\ UNCHANGED <<kvars, lvars, tvars>>
  /\ rrun[r].pc = "open"
  /\ IF ~rtmp
     THEN rrun' = [rrun EXCEPT ![r] = [@ EXCEPT !.pc = "done", !.exit = "openfail"]]
     ELSE LET recv_entries == RecvEntries(parse_rtc_log(rfile))
          IN IF recv_entries = <<>>
             THEN rrun' = [rrun EXCEPT ![r] = [@ EXCEPT !.pc = "upload"]]
             ELSE rrun' = [rrun EXCEPT ![r] =
                             [@ EXCEPT !.pc = "loop",
                                       !.recv_entries = recv_entries,
                                       !.pre = {rtc_log[j].wash_id :
                                                  j \in 1..Len(rtc_log)}]]
  /\ UNCHANGED <<rfile, rsrc, s3_keys, rtc_log, rfails, ruploads, rtmp>>

\* line 208, upload_unparsed_file (lines 128-138): upload_file raises when the
\* temporary file is gone; the except branch of line 137 prints and returns
RUploadUnparsed(r) ==
  /\ UNCHANGED <<kvars, lvars, tvars>>
  /\ rrun[r].pc = "upload"
  /\ IF rtmp
     THEN /\ s3_keys' = upload_unparsed_file(s3_keys, rrun[r].key)
          /\ ruploads' = IF InUnparsed(rrun[r].key) THEN ruploads
                         ELSE Append(ruploads, [run |-> r, to |-> NewKey(rrun[r].key)])
     ELSE UNCHANGED <<s3_keys, ruploads>>
  /\ rrun' = [rrun EXCEPT ![r] = [@ EXCEPT !.pc = "cleanup"]]
  /\ UNCHANGED <<rfile, rsrc, rtc_log, rfails, rtmp>>

\* lines 209-210, cleanup_file (lines 278-283): the temporary file is removed
\* (a failure is swallowed) and main returns
RCleanupFile(r) ==
  /\ UNCHANGED <<kvars, lvars, tvars>>
  /\ rrun[r].pc = "cleanup"
  /\ rtmp' = FALSE
  /\ rrun' = [rrun EXCEPT ![r] = [@ EXCEPT !.pc = "done", !.exit = "unparsed"]]
  /\ UNCHANGED <<rfile, rsrc, s3_keys, rtc_log, rfails, ruploads>>

\* one iteration of the loop (lines 219-252).  raises: the INSERT raises.  The
\* error is caught, but the server has aborted the transaction: the SELECT of
\* the next iteration raises outside any try and main() dies without commit.
RStep(r, raises) ==
  /\ UNCHANGED <<kvars, lvars, tvars>>
  /\ rrun[r].pc = "loop"
  /\ rrun[r].idx <= Len(rrun[r].recv_entries)
  /\ ~EarlyStop(rrun[r].consecutive_exists)
  /\ LET R == rrun[r]
         e == R.recv_entries[R.idx]
         exists == Exists(rtc_log, R.pending, e.wash_id)
     IN IF R.aborted
        THEN /\ ~raises
             /\ rrun' = [rrun EXCEPT ![r] = [@ EXCEPT !.pc = "done", !.exit = "crash",
                                                      !.pending = <<>>]]
             /\ UNCHANGED rfails
        ELSE IF exists
        THEN /\ ~raises
             /\ rrun' = [rrun EXCEPT ![r] =
                           [@ EXCEPT !.consecutive_exists = @ + 1, !.idx = @ + 1,
                                     !.checked = Append(@, [exists |-> TRUE,
                                                            inserted |-> FALSE])]]
             /\ UNCHANGED rfails
        ELSE /\ raises => rfails < MaxRtcFailures
             /\ rrun' = [rrun EXCEPT ![r] =
                           [@ EXCEPT !.consecutive_exists = 0, !.idx = @ + 1,
                                     !.aborted = raises,
                                     !.pending = IF raises THEN @
                                                 ELSE Append(@, RtcRow(e)),
                                     !.inserted_count = IF raises THEN @ ELSE @ + 1,
                                     !.checked = Append(@, [exists |-> FALSE,
                                                            inserted |-> ~raises])]]
             /\ rfails' = IF raises THEN rfails + 1 ELSE rfails
  /\ UNCHANGED <<rfile, rsrc, s3_keys, rtc_log, ruploads, rtmp>>

\* the loop is over (exhausted, or `break` at lines 221-223): commit and close
\* (lines 254-256).  COMMIT of an aborted transaction rolls it back without
\* raising.
RCommit(r) ==
  /\ UNCHANGED <<kvars, lvars, tvars>>
  /\ rrun[r].pc = "loop"
  /\ \/ rrun[r].idx > Len(rrun[r].recv_entries)
     \/ EarlyStop(rrun[r].consecutive_exists)
  /\ rtc_log' = IF rrun[r].aborted THEN rtc_log ELSE rtc_log \o rrun[r].pending
  /\ rrun' = [rrun EXCEPT ![r] =
                [@ EXCEPT !.pc = "delete", !.pending = <<>>,
                          !.committed = IF rrun[r].aborted THEN <<>>
                                        ELSE rrun[r].pending]]
  /\ UNCHANGED <<rfile, rsrc, s3_keys, rfails, ruploads, rtmp>>

\* lines 258-268: the source object is deleted.  raises: delete_object raises;
\* the except branch of line 267 prints and main goes on
RDelete(r, raises) ==
  /\ UNCHANGED <<kvars, lvars, tvars>>
  /\ rrun[r].pc = "delete"
  /\ raises => rfails < MaxRtcFailures /\ DeleteAfterLoop(rrun[r].inserted_count)
  /\ LET del == DeleteAfterLoop(rrun[r].inserted_count) /\ ~raises
     IN /\ s3_keys' = IF del THEN s3_keys \ {rrun[r].key} ELSE s3_keys
        /\ rrun' = [rrun EXCEPT ![r] = [@ EXCEPT !.pc = "remove", !.deleted = del,
                                                 !.delete_raised = raises]]
  /\ rfails' = IF raises THEN rfails + 1 ELSE rfails
  /\ UNCHANGED <<rfile, rsrc, rtc_log, ruploads, rtmp>>

\* lines 270-275: os.remove(local_path); a failure is swallowed
RRemove(r) ==
  /\ UNCHANGED <<kvars, lvars, tvars>>
  /\ rrun[r].pc = "remove"
  /\ rtmp' = FALSE
  /\ rrun' = [rrun EXCEPT ![r] = [@ EXCEPT !.pc = "done", !.exit = "ok"]]
  /\ UNCHANGED <<rfile, rsrc, s3_keys, rtc_log, rfails, ruploads>>

\* insert_entries (lines 141-174): a function of the module that main() does
\* not call, and nothing else in the repository does.  It opens a connection
\* of its own, inserts every entry it is given (no SELECT, no filter on the
\* direction) and commits; when a statement raises nothing is committed and it
\* returns 0
insert_entries(tbl, entries, raises) ==
  IF entries = <<>> \/ raises THEN [tbl |-> tbl, ret |-> 0]
  ELSE [tbl |-> tbl \o [i \in DOMAIN entries |-> RtcRow(entries[i])],
        ret |-> Len(entries)]

\* a caller outside the repository passes the parsed entries of the log to
\* insert_entries; no step of main() does, so the action is no part of RNext
RInsertEntries(raises) ==
  /\ UNCHANGED <<kvars, lvars, tvars>>
  /\ Len(rtc_log) <= MaxEvents
  /\ rtc_log' = insert_entries(rtc_log, parse_rtc_log(rfile), raises).tbl
  /\ UNCHANGED <<rfile, rsrc, s3_keys, rrun, rfails, ruploads, rtmp>>

RNext ==
  \/ \E r \in RProcs : RDownload(r)
  \/ \E r \in RProcs : ROpen(r)
  \/ \E r \in RProcs : RUploadUnparsed(r)
  \/ \E r \in RProcs : RCleanupFile(r)
  \/ \E r \in RProcs, raises \in BOOLEAN : RStep(r, raises)
  \/ \E r \in RProcs : RCommit(r)
  \/ \E r \in RProcs, raises \in BOOLEAN : RDelete(r, raises)
  \/ \E r \in RProcs : RRemove(r)

-----------------------------------------------------------------------------
(***************************************************************************)
(* KIOSK PIPELINE BEHIND /trigger.  Each upload of a kiosk object makes    *)
(* the Lambda POST its (bucket, key) to /trigger with the shared secret;   *)
(* app.py starts one process per request and does not wait for it, so the  *)
(* processes may overlap.  The steps of main() that touch S3 or the        *)
(* database are separate actions: listing, download, parse and upsert,     *)
(* delete.                                                                 *)
(***************************************************************************)
\* the d-th kiosk object: kiosks/safariexpresswash_FRA_<d>_Transaction.txt
TName(d) ==
  [prefix |-> "safariexpresswash", location |-> "FRA", digits |-> d,
   kind |-> "Transaction"]

TProcs == 1..MaxTriggers

\* the lines an object may hold: one closed session with the object's own
\* invoice id (6 + d), with or without a wash package line before it
TContents(d) ==
  { << Line(Some(1), << InvTok(ToDigits(6 + d)) >> \o CloseToks) >>,
    << PackageLine(Some(1), <<4>>, <<"Basic", "Wash">>),
       Line(Some(2), << InvTok(ToDigits(6 + d)) >> \o CloseToks) >> }

\* latest_s3_object (lines 415-424): the listing is in key order and an object
\* replaces newest only when its LastModified is strictly greater, so the
\* result is the first key among the objects with the greatest LastModified
latest_s3_object(objs) ==
  LET match == {o \in objs : o.key.kind = "Transaction"}
      top   == {o \in match : \A q \in match : q.LastModified <= o.LastModified}
  IN IF match = {} THEN None
     ELSE Some(CHOOSE o \in top : \A q \in top : o.key.digits <= q.key.digits)

\* main(), lines 449-452: INPUT_PATH is unset under app.py; sys.argv is not
\* read anywhere, the object is the newest one of the listing
ObjectOfRun(objs, argv) == latest_s3_object(objs)

\* the loop of parse_file (lines 178-274) over the lines of a file; None when
\* parse_ts raises on a line
RECURSIVE parse_lines(_, _)
parse_lines(P, lines) ==
  IF lines = <<>> THEN Some(P)
  ELSE IF lines[1].bad THEN None
  ELSE parse_lines(ProcessLine(P, lines[1]), Tail(lines))

\* parse_file: the rows of a file, None when it raises
parse_file(lines, name, now) ==
  LET P == parse_lines([sess |-> None, sessions |-> <<>>, session_counter |-> 0],
                       lines)
  IN IF IsNone(P) THEN None
     ELSE Some(BuildRows(FinalSessions(Val(P)), name, now))

TIdleRun ==
  [pc |-> "none", argv |-> None, s3_key |-> None, local |-> <<>>, final_rows |-> <<>>,
   upserted |-> FALSE, deleted |-> None, exit |-> ""]

TInit ==
  /\ tbucket = {}
  /\ tnow = 0
  /\ tposted = {}
  /\ trun = [p \in TProcs |-> TIdleRun]
  /\ twashify = {}

\* this pipeline at rest, for the specifications of the other pipelines
TIdle == TInit

\* a kiosk uploads its d-th Transaction file; S3 stamps it to the second and
\* the Lambda posts its key to /trigger
TUpload(d) ==
  /\ UNCHANGED <<kvars, lvars, rvars>>
  /\ trun[d].pc = "none"
  /\ TName(d) \notin tposted
  /\ \A o \in tbucket : o.key /= TName(d)
  /\ \E dt \in {0, 1}, lines \in TContents(d) :
       /\ tnow' = tnow + dt
       /\ tbucket' = tbucket \cup
            {[key |-> TName(d), LastModified |-> tnow + dt, lines |-> lines]}
  /\ tposted' = tposted \cup {TName(d)}
  /\ UNCHANGED <<trun, twashify>>

\* app.py, trigger() (lines 54-76) for a request carrying the secret, the
\* bucket and the key: Popen(["python", WASHIFY_SCRIPT, bucket, key])
trigger(d) ==
  /\ UNCHANGED <<kvars, lvars, rvars>>
  /\ TName(d) \in tposted
  /\ trun[d].pc = "none"
  /\ tposted' = tposted \ {TName(d)}
  /\ trun' = [trun EXCEPT ![d] = [@ EXCEPT !.pc = "main", !.argv = Some(TName(d))]]
  /\ UNCHANGED <<tbucket, tnow, twashify>>

\* main(), lines 449-456: choose the object, or return when there is none
TMain(p) ==
  /\ UNCHANGED <<kvars, lvars, rvars>>
  /\ trun[p].pc = "main"
  /\ LET obj == ObjectOfRun(tbucket, Val(trun[p].argv))
     IN trun' = [trun EXCEPT ![p] =
                  IF IsNone(obj)
                  THEN [@ EXCEPT !.pc = "done", !.exit = "nofile"]
                  ELSE [@ EXCEPT !.pc = "download", !.s3_key = Some(Val(obj).key)]]
  /\ UNCHANGED <<tbucket, tnow, tposted, twashify>>

\* main(), lines 457-472: download_s3_to_temp, then parse_file and the dedup;
\* download_file raises when the object is gone, parse_file when parse_ts
\* raises, and nothing catches either.  The rows are stamped here, by the clock
\* parse_file reads (lines 313-314)
TDownload(p) ==
  /\ UNCHANGED <<kvars, lvars, rvars>>
  /\ trun[p].pc = "download"
  /\ LET here == {o \in tbucket : o.key = Val(trun[p].s3_key)}
         lines == (CHOOSE o \in here : TRUE).lines
         rows == parse_file(lines, Val(trun[p].s3_key), tnow)
     IN trun' = [trun EXCEPT ![p] =
                  IF here = {}
                  THEN [@ EXCEPT !.pc = "done", !.exit = "crash"]
                  ELSE IF IsNone(rows)
                  THEN [@ EXCEPT !.pc = "done", !.exit = "crash", !.local = lines]
                  ELSE [@ EXCEPT !.pc = "upsert", !.local = lines,
                                 !.final_rows = Dedup(Val(rows))]]
  /\ UNCHANGED <<tbucket, tnow, tposted, twashify>>

\* main(), lines 474-480: get_conn, create_table_if_needed, batch_upsert and
\* its commit
TUpsert(p) ==
  /\ UNCHANGED <<kvars, lvars, rvars>>
  /\ trun[p].pc = "upsert"
  /\ IF BatchRaises(trun[p].final_rows)
     THEN /\ trun' = [trun EXCEPT ![p] =
                       [@ EXCEPT !.pc = "done", !.exit = "upsert_failed"]]
          /\ UNCHANGED twashify
     ELSE /\ twashify' = batch_upsert(twashify, trun[p].final_rows)
          /\ trun' = [trun EXCEPT ![p] = [@ EXCEPT !.pc = "delete", !.upserted = TRUE]]
  /\ UNCHANGED <<tbucket, tnow, tposted>>

\* main(), lines 482-484: delete_s3_object(s3_key); deleting a key that is
\* already gone is no error
TDelete(p) ==
  /\ UNCHANGED <<kvars, lvars, rvars>>
  /\ trun[p].pc = "delete"
  /\ tbucket' = {o \in tbucket : o.key /= Val(trun[p].s3_key)}
  /\ trun' = [trun EXCEPT ![p] =
               [@ EXCEPT !.pc = "done", !.exit = "ok", !.deleted = trun[p].s3_key]]
  /\ UNCHANGED <<tnow, tposted, twashify>>

TNext ==
  \/ \E d \in TProcs : TUpload(d)
  \/ \E d \in TProcs : trigger(d)
  \/ \E p \in TProcs : TMain(p)
  \/ \E p \in TProcs : TDownload(p)
  \/ \E p \in TProcs : TUpsert(p)
  \/ \E p \in TProcs : TDelete(p)

-----------------------------------------------------------------------------
(***************************************************************************)
(* KIOSK PIPELINE: properties.                                             *)
(***************************************************************************)
\* the lines of the file consumed so far that carry a close-marker pair
CloseLines == {i \in 1..kpos : ~kfile[i].bad /\ IsEndMarker(kfile[i].toks)}
KthClose(k) == IF k = 0 THEN 0
               ELSE CHOOSE c \in CloseLines : Cardinality({d \in CloseLines : d <= c}) = k
\* the lines of the k-th flushed session
SpanOf(k) == {i \in 1..kpos : KthClose(k - 1) < i /\ i <= KthClose(k)}
Flushed == {k \in DOMAIN sessions : k <= Cardinality(CloseLines)}
LastRunOk == kpc = "idle" /\ kexits /= <<>> /\ kexits[Len(kexits)] = "ok"
RowsOfSession(k) == {i \in DOMAIN klast : klast[i].session_index = k - 1}

NoStamp(r) == [c \in (DOMAIN r) \ {"created_on", "created_at"} |-> r[c]]
SameButStamps(t1, t2) ==
  /\ Cardinality(t1) = Cardinality(t2)
  /\ {NoStamp(r) : r \in t1} = {NoStamp(r) : r \in t2}
  /\ {r.bill : r \in t1} = {r.bill : r \in t2}
  /\ \A r1, r2 \in t1 : r1.bill = r2.bill => r1 = r2

\* C1 (as claimed): after a second run over the same unmodified file the washify
\* table is the table the first run left: same bills, every column identical.
C1_SameRowSet ==
  (Len(kexits) >= 2 /\ kexits[1] = "ok" /\ kexits[2] = "ok") => washify = washify1

\* C1 (amended): after any number of further runs over the same unmodified file
\* the table has the same bills, one row per bill, and every column but
\* created_on / created_at (the time of the latest run) is what the first run stored.
C1_SameButStamps ==
  (kexits /= <<>> /\ kexits[1] = "ok") => SameButStamps(washify, washify1)

C1_Witness ==
  /\ Len(kexits) = 2 /\ kexits[1] = "ok" /\ kexits[2] = "ok"
  /\ Len(klast) = 3 /\ Cardinality(washify) = 2
  /\ washify /= washify1

\* C2: every row parse_file emits has bill > 0, and a flushed session whose
\* invoice is missing or numerically zero (any string of zeros) yields no row.
C2_PositiveBill ==
  LastRunOk =>
    /\ \A i \in DOMAIN klast : klast[i].bill > 0
    /\ \A k \in DOMAIN sessions :
         (IsNone(sessions[k].s.invoice) \/ ToInt(Val(sessions[k].s.invoice)) = 0)
           => RowsOfSession(k) = {}

\* C3 (as claimed): rows that are not unlimited are NORMAL, the first unlimited
\* session of the file is SIGNUP, every later unlimited session is WASH.
FirstUnlimited == Min({k \in DOMAIN sessions : sessions[k].s.is_unlimited})
C3_FirstUnlimitedSignup ==
  LastRunOk =>
    \A k \in DOMAIN sessions : \A i \in RowsOfSession(k) :
      /\ ~sessions[k].s.is_unlimited => klast[i].invoice_kind = "NORMAL"
      /\ (sessions[k].s.is_unlimited /\ k = FirstUnlimited)
           => klast[i].invoice_kind = "SIGNUP"
      /\ (sessions[k].s.is_unlimited /\ k > FirstUnlimited)
           => klast[i].invoice_kind = "WASH"

\* C3 (amended): rows that are not unlimited are NORMAL; an unlimited session is
\* SIGNUP exactly when it is the session closed by the first close-marker line
\* of the file, and WASH when any session, unlimited or not, was closed before it.
C3_FirstSessionSignup ==
  LastRunOk =>
    \A k \in DOMAIN sessions : \A i \in RowsOfSession(k) :
      /\ klast[i].is_unlimited = sessions[k].s.is_unlimited
      /\ ~sessions[k].s.is_unlimited => klast[i].invoice_kind = "NORMAL"
      /\ (sessions[k].s.is_unlimited /\ KthClose(k) = Min(CloseLines))
           => klast[i].invoice_kind = "SIGNUP"
      /\ (sessions[k].s.is_unlimited /\ KthClose(k) > Min(CloseLines))
           => klast[i].invoice_kind = "WASH"

C3_Witness ==
  /\ LastRunOk
  /\ \E i, j \in DOMAIN klast :
       /\ i < j
       /\ ~klast[i].is_unlimited /\ klast[i].invoice_kind = "NORMAL"
       /\ klast[j].is_unlimited /\ klast[j].invoice_kind = "WASH"
       /\ \A h \in DOMAIN klast : klast[h].invoice_kind /= "SIGNUP"

\* C4: a flushed session whose lines hold both a NEW CUSTOMER -> marker and a
\* RECURRING -> marker, in either order and with any timestamps, is unlimited
\* with unlimited_type RECURRING.
HasNew(i) == HasText(kfile[i].toks, "NEW CUSTOMER ->")
HasRecurring(i) == HasText(kfile[i].toks, "RECURRING ->")
C4_RecurringWins ==
  \A k \in Flushed :
    ((\E i \in SpanOf(k) : HasNew(i)) /\ (\E j \in SpanOf(k) : HasRecurring(j)))
      => /\ sessions[k].s.is_unlimited
         /\ sessions[k].s.unlimited_type = Some("RECURRING")

C4_Witness ==
  \E k \in Flushed : \E i, j \in SpanOf(k) :
    /\ j < i /\ HasRecurring(j) /\ HasNew(i)
    /\ IsSome(kfile[j].ts) /\ IsSome(kfile[i].ts) /\ Val(kfile[i].ts) > Val(kfile[j].ts)
    /\ sessions[k].s.unlimited_type = Some("RECURRING")

\* C7: in every emitted row the add-on names are in non-decreasing order of the
\* timestamp at which each add-on was last observed, add-ons observed without a
\* timestamp first, whatever the order of the lines in the file.
ObservedAt(s, name) ==
  LET e == CHOOSE x \in {s.addon_map[i] : i \in DOMAIN s.addon_map} : x.info.name = name
  IN IF IsNone(e.info.ts) THEN 0 ELSE Val(e.info.ts)
C7_AddonOrder ==
  LastRunOk =>
    \A k \in DOMAIN sessions : \A i \in RowsOfSession(k) :
      LET s == sessions[k].s
          names == klast[i].addons
      IN IF s.addon_map = <<>> THEN IsNone(names)
         ELSE /\ IsSome(names)
              /\ Len(Val(names)) = Len(s.addon_map)
              /\ {Val(names)[p] : p \in DOMAIN Val(names)}
                   = {s.addon_map[p].info.name : p \in DOMAIN s.addon_map}
              /\ \A p, q \in DOMAIN Val(names) :
                   p < q => ObservedAt(s, Val(names)[p]) <= ObservedAt(s, Val(names)[q])

\* file order T2, T1, T3 rendered T1, T2, T3
C7_Witness ==
  /\ LastRunOk
  /\ \E i \in DOMAIN klast :
       /\ klast[i].addons = Some(<< <<"WAX">>, <<"TIRE", "SHINE">>, <<"Tip", "2">> >>)
       /\ Len(kfile) = 3
       /\ kfile[1].ts = Some(2) /\ kfile[2].ts = Some(1) /\ kfile[3].ts = Some(3)

\* C9 (as claimed): a line with an inline "InvoiceID N Payment Type P", N non-zero,
\* followed by a close marker in its session, yields exactly one row of that
\* session, with bill = N and payment_type = P.
InlineN(i) == ToInt(kfile[i].toks[InlinePayIdx(kfile[i].toks)].n)
InlineP(i) == kfile[i].toks[InlinePayIdx(kfile[i].toks) + 1].s[1]
HasInline(i) == InlinePayIdx(kfile[i].toks) /= 0 /\ InlineN(i) /= 0
C9_InlineInvoicePayment ==
  LastRunOk =>
    \A k \in DOMAIN sessions : \A i \in SpanOf(k) :
      HasInline(i) =>
        /\ Cardinality(RowsOfSession(k)) = 1
        /\ \A r \in RowsOfSession(k) :
             klast[r].bill = InlineN(i) /\ klast[r].payment_type = Some(InlineP(i))

\* C9 (amended): such a line yields that row when it also carries the
\* SaveTransactions marker, P is its first Payment Type, no earlier line of the
\* session names an invoice, and no other line of the session is a payment line.
NamesInvoice(i) == HasText(kfile[i].toks, "InvoiceID")
                   \/ HasText(kfile[i].toks, "DoTransactionAfterDispatcher")
IsPaymentLine(i) == HasText(kfile[i].toks, "SaveTransactions")
                    /\ HasText(kfile[i].toks, "PaymentType")
C9_InlineWithSaveMarker ==
  LastRunOk =>
    \A k \in DOMAIN sessions : \A i \in SpanOf(k) :
      ( /\ HasInline(i)
        /\ IsPaymentLine(i)
        /\ PAYMENT_TYPE_RE(kfile[i].toks) = Some(InlineP(i))
        /\ \A j \in SpanOf(k) : j < i => ~NamesInvoice(j)
        /\ \A j \in SpanOf(k) : j /= i => ~IsPaymentLine(j) )
      => /\ Cardinality(RowsOfSession(k)) = 1
         /\ \A r \in RowsOfSession(k) :
              klast[r].bill = InlineN(i) /\ klast[r].payment_type = Some(InlineP(i))

C9_Witness ==
  /\ LastRunOk
  /\ \E k \in DOMAIN sessions : \E i \in SpanOf(k) :
       /\ HasInline(i) /\ IsPaymentLine(i) /\ i < KthClose(k)
       /\ \E j \in SpanOf(k) : j > i /\ NamesInvoice(j)
       /\ \E r \in RowsOfSession(k) :
            klast[r].bill = 55019 /\ klast[r].payment_type = Some("CASH")

\* C16: a session still open when the end of the file is reached contributes
\* no row, whatever it has accumulated: every row comes from a session closed
\* by a close-marker line, and none carries the index the open session would
\* have received.
C16_OpenSessionDiscarded ==
  LastRunOk =>
    /\ Len(klast) <= Cardinality(CloseLines)
    /\ \A i \in DOMAIN klast : klast[i].session_index < Cardinality(CloseLines)
    /\ IsSome(sess) => \A i \in DOMAIN klast : klast[i].session_index /= session_counter

\* the file ends inside a session that has a positive invoice, after a closed
\* session that gave a row; the open session's bill is in no row
C16_Witness ==
  /\ LastRunOk
  /\ klast /= <<>>
  /\ IsSome(sess) /\ IsSome(Val(sess).invoice) /\ ToInt(Val(Val(sess).invoice)) > 0
  /\ \A i \in DOMAIN klast : klast[i].bill /= ToInt(Val(Val(sess).invoice))
  /\ \A r \in washify : r.bill /= ToInt(Val(Val(sess).invoice))

\* the first match other than "0" among the patterns ms of a line, in order
FirstValid(ms) ==
  LET S == {x \in DOMAIN ms : IsSome(ms[x]) /\ Val(ms[x]) /= <<0>>}
  IN IF S = {} THEN None ELSE ms[Min(S)]
ClaimedOrder(toks) ==
  << INVOICE_INLINE_PAY_RE(toks), PROCEED_INVOICE_RE(toks), DO_TXN_RE(toks),
     INVOICE_ANY_RE(toks), INVOICE_FROM_AWS_RE(toks) >>
CodeOrder(toks) ==
  << INVOICE_INLINE_PAY_RE(toks), DO_TXN_RE(toks), PROCEED_INVOICE_RE(toks),
     INVOICE_ANY_RE(toks), INVOICE_FROM_AWS_RE(toks) >>
\* the lines of flushed session k on which some pattern has a match other than "0"
InvoiceLinesOf(k) ==
  {i \in SpanOf(k) : ~kfile[i].bad /\ IsSome(FirstValid(CodeOrder(kfile[i].toks)))}

\* C20 (as claimed): the invoice of a session is the first non-zero match, in
\* the order inline, proceed-to-wash, dispatcher, generic, AWS-style, on the
\* first line of the session that has one; later lines do not change it.
C20_ClaimedPriority ==
  \A k \in Flushed :
    sessions[k].s.invoice =
      IF InvoiceLinesOf(k) = {} THEN None
      ELSE FirstValid(ClaimedOrder(kfile[Min(InvoiceLinesOf(k))].toks))

\* C20 (amended): the same with the order inline, dispatcher, proceed-to-wash,
\* generic, AWS-style, a match counting unless it is the string "0".
C20_CodePriority ==
  \A k \in Flushed :
    sessions[k].s.invoice =
      IF InvoiceLinesOf(k) = {} THEN None
      ELSE FirstValid(CodeOrder(kfile[Min(InvoiceLinesOf(k))].toks))

\* a flushed session whose first invoice line matches the dispatcher and the
\* proceed-to-wash pattern with different ids, and a later line names another
C20_Witness ==
  \E k \in Flushed :
    /\ InvoiceLinesOf(k) /= {}
    /\ LET i == Min(InvoiceLinesOf(k))
       IN /\ IsSome(DO_TXN_RE(kfile[i].toks)) /\ IsSome(PROCEED_INVOICE_RE(kfile[i].toks))
          /\ DO_TXN_RE(kfile[i].toks) /= PROCEED_INVOICE_RE(kfile[i].toks)
          /\ sessions[k].s.invoice = DO_TXN_RE(kfile[i].toks)
          /\ \E j \in InvoiceLinesOf(k) :
               j > i /\ FirstValid(CodeOrder(kfile[j].toks)) /= sessions[k].s.invoice

\* the keys of WASH_TYPE_MAP contained in the upper-cased package name
KeysIn(name) ==
  IF IsNone(name) THEN {}
  ELSE {i \in DOMAIN WASH_TYPE_MAP :
          Contains(UpperWords(Val(name)), WASH_TYPE_MAP[i].key)}
LongestKeysIn(name) ==
  {i \in KeysIn(name) : \A j \in KeysIn(name) :
     CharLen(WASH_TYPE_MAP[j].key) <= CharLen(WASH_TYPE_MAP[i].key)}

\* C21 (as claimed): the wash type of a row is the type of the longest
\* vocabulary key contained in its package name; it is null when the name is
\* missing or contains no key.
C21_LongestKey ==
  LastRunOk =>
    \A i \in DOMAIN klast :
      IF KeysIn(klast[i].wash_package_name) = {} THEN klast[i].wash_type = None
      ELSE \E x \in LongestKeysIn(klast[i].wash_package_name) :
             klast[i].wash_type = Some(WASH_TYPE_MAP[x].val)

\* C21 (amended): the wash type of a row is the type of the first key, in the
\* order INTERIOR SUP, BEST WASH, BETTER WASH, GOOD WASH, BASIC WASH, that
\* the package name contains; it is null when the name is missing or contains
\* no key.
C21_FirstKey ==
  LastRunOk =>
    \A i \in DOMAIN klast :
      IF KeysIn(klast[i].wash_package_name) = {} THEN klast[i].wash_type = None
      ELSE klast[i].wash_type =
             Some(WASH_TYPE_MAP[Min(KeysIn(klast[i].wash_package_name))].val)

\* a row whose package name contains BETTER WASH before BEST WASH is Best, a
\* row without a package name has no type
C21_Witness ==
  /\ LastRunOk
  /\ \E i, j \in DOMAIN klast :
       /\ KeysIn(klast[i].wash_package_name) = {2, 3}
       /\ klast[i].wash_type = Some("Best")
       /\ KeysIn(klast[j].wash_package_name) = {}
       /\ klast[j].wash_type = None

\* C25: a line whose timestamp header has the shape of a timestamp but is no
\* valid date/time is skipped and the pass goes on: the run over a file with
\* such a line ends normally, having read the whole file, and every session
\* closed with an invoice before or after that line has its row in washify.
C25_BadTimestampSkipped ==
  (kpc = "idle" /\ kexits /= <<>> /\ \E i \in 1..kpos : kfile[i].bad) =>
    /\ kexits[Len(kexits)] = "ok"
    /\ kpos = Len(kfile)
    /\ \A k \in DOMAIN sessions :
         ~NoInvoice(sessions[k]) =>
           \E r \in washify : r.bill = ToInt(Val(sessions[k].s.invoice))

\* the payment lines of flushed session k, and those with a timestamp
PaymentLinesOf(k) == {i \in SpanOf(k) : IsPaymentLine(i)}
StampedPaymentLinesOf(k) == {i \in PaymentLinesOf(k) : IsSome(kfile[i].ts)}
\* the line that decides the payment type of session k: the last of the
\* payment lines with the greatest timestamp, or, when no payment line has a
\* timestamp, the last payment line
DecidingPaymentLine(k) ==
  IF StampedPaymentLinesOf(k) = {} THEN Max(PaymentLinesOf(k))
  ELSE Max({i \in StampedPaymentLinesOf(k) :
              \A j \in StampedPaymentLinesOf(k) : Val(kfile[j].ts) <= Val(kfile[i].ts)})

\* C26: payment type is latest-timestamp-wins.  At session close payment_type
\* is the value of the payment line with the greatest timestamp among the
\* session's payment lines, the later one in file order on equal timestamps; a
\* payment line with a strictly earlier timestamp (or, once a timestamp is
\* recorded, without one) never overwrites it.
C26_LatestPaymentWins ==
  \A k \in Flushed :
    IF PaymentLinesOf(k) = {} THEN sessions[k].s.payment_type = None
    ELSE /\ sessions[k].s.payment_type =
              PAYMENT_TYPE_RE(kfile[DecidingPaymentLine(k)].toks)
         /\ sessions[k].s.payment_type_ts = kfile[DecidingPaymentLine(k)].ts

\* a flushed session with three payment lines, in file order: one at time 2,
\* one of another type at time 2 as well, one of a third type at time 1.  The
\* payment type is that of the second: the tie went to the later line, and the
\* earlier timestamp did not overwrite
C26_Witness ==
  \E k \in Flushed : \E i, j, l \in PaymentLinesOf(k) :
    /\ i < j /\ j < l
    /\ kfile[i].ts = Some(2) /\ kfile[j].ts = Some(2) /\ kfile[l].ts = Some(1)
    /\ PAYMENT_TYPE_RE(kfile[i].toks) /= PAYMENT_TYPE_RE(kfile[j].toks)
    /\ PAYMENT_TYPE_RE(kfile[l].toks) /= PAYMENT_TYPE_RE(kfile[j].toks)
    /\ sessions[k].s.payment_type = PAYMENT_TYPE_RE(kfile[j].toks)
    /\ sessions[k].s.payment_type_ts = Some(2)

\* C27: in every flushed session, whatever the order of the package-selection
\* and add-on lines, the primary wash never appears among its own add-ons
\* (no add-on has the id or the name of the main package), and no add-on id
\* has more than one entry.
C27_PrimaryNeverOwnAddon ==
  \A k \in Flushed :
    LET s == sessions[k].s
    IN /\ \A x \in DOMAIN s.addon_map :
            /\ Some(s.addon_map[x].id) /= s.wash_package_id
            /\ Some(s.addon_map[x].info.name) /= s.wash_package_name
       /\ \A x, y \in DOMAIN s.addon_map :
            s.addon_map[x].id = s.addon_map[y].id => x = y

\* C28: during the forward pass at most one session is open; every
\* close-marker line flushes exactly one session and leaves none open, every
\* other line leaves one open; the flushed sessions carry session_index 0, 1,
\* 2, ... in file order without gaps, sessions without an invoice included,
\* and the rows keep the index of their session.
C28_SessionIndex ==
  /\ Len(sessions) = Cardinality(CloseLines)
  /\ session_counter = Len(sessions)
  /\ \A k \in DOMAIN sessions : sessions[k].session_index = k - 1
  /\ (kpos > 0 /\ ~kfile[kpos].bad) => (IsNone(sess) <=> kpos \in CloseLines)
  /\ LastRunOk =>
       /\ \A i, j \in DOMAIN klast : i < j => klast[i].session_index < klast[j].session_index
       /\ \A i \in DOMAIN klast :
            /\ klast[i].session_index + 1 \in DOMAIN sessions
            /\ klast[i].bill = ToInt(Val(sessions[klast[i].session_index + 1].s.invoice))

\* a file whose first session closes without an invoice and whose second
\* session closes with one: the only row carries index 1
C28_Witness ==
  /\ LastRunOk
  /\ Len(sessions) = 2
  /\ NoInvoice(sessions[1])
  /\ Len(klast) = 1 /\ klast[1].session_index = 1

\* the timestamps of the timestamped lines of the k-th flushed session
StampsOf(k) == {Val(kfile[i].ts) : i \in {j \in SpanOf(k) : IsSome(kfile[j].ts)}}

\* C31: for every flushed session, first_ts and last_ts are both absent (the
\* session has no timestamped line) or both present with first_ts <= last_ts;
\* first_ts is the minimum and last_ts the maximum of the timestamps of the
\* session's timestamped lines, in whatever order they arrive.
C31_FirstLastTs ==
  \A k \in Flushed :
    LET s == sessions[k].s
    IN /\ IsNone(s.first_ts) <=> IsNone(s.last_ts)
       /\ IsNone(s.first_ts) <=> StampsOf(k) = {}
       /\ IsSome(s.first_ts) =>
            /\ Val(s.first_ts) <= Val(s.last_ts)
            /\ Val(s.first_ts) = Min(StampsOf(k))
            /\ Val(s.last_ts) = Max(StampsOf(k))

\* a flushed session whose timestamps arrived in decreasing order and whose
\* close line has no timestamp: first_ts is the later line's timestamp, last_ts
\* the earlier line's
C31_Witness ==
  \E k \in Flushed :
    /\ IsNone(kfile[KthClose(k)].ts)
    /\ \E i, j \in SpanOf(k) :
         /\ i < j /\ IsSome(kfile[i].ts) /\ IsSome(kfile[j].ts)
         /\ Val(kfile[i].ts) > Val(kfile[j].ts)
         /\ sessions[k].s.first_ts = kfile[j].ts
         /\ sessions[k].s.last_ts = kfile[i].ts

LastRunUpsertFailed ==
  kpc = "idle" /\ kexits /= <<>> /\ kexits[Len(kexits)] = "upsert_failed"

\* C14: each session is its own failure domain.  When the upsert of one
\* session's row fails, the rows of the other sessions of the batch are
\* persisted all the same.
C14_SessionFailureDomain ==
  LastRunUpsertFailed =>
    \A i \in DOMAIN Dedup(klast) :
      ~UpsertRaises(Stored(Dedup(klast)[i])) => Stored(Dedup(klast)[i]) \in washify

\* C15: zero-yield handling.  A kiosk file without a session with an invoice,
\* or a loader file without a complete 4-line block, is not deleted from its
\* source location (the pipelines keep no other copy of it).
C15_ZeroYieldKept ==
  /\ (LastRunOk /\ klast = <<>>) => kobj
  /\ \A p \in LProcs :
       (lrun[p].pc = "done" /\ Len(lrun[p].lines) < 4) => ~lrun[p].deleted

-----------------------------------------------------------------------------
(***************************************************************************)
(* LOADER PIPELINE: properties.                                            *)
(***************************************************************************)
\* process p is through process_files
LRunDone(p) == lrun[p].pc = "done" /\ lrun[p].exit = "ok"
\* process p is in the loop of process_folder
LWalking(p) == lrun[p].pc \in {"block", "insert", "super", "tunnel"}
\* 0-based indices of the complete blocks of the file walked
LBlocksOf(lines) == {j \in 0..(Len(lines) \div 4) : 4 * j + 3 < Len(lines)}
LWellFormed(lines) ==
  /\ lines /= <<>> /\ Len(lines) % 4 = 0
  /\ \A j \in LBlocksOf(lines) : IsSome(ParseBlock(lines, 4 * j))
LBillAt(lines, j) == Val(ParseBlock(lines, 4 * j)).bill
LDid(p, name, j) ==
  \E x \in DOMAIN lrun[p].ops : lrun[p].ops[x].op = name /\ lrun[p].ops[x].i = 4 * j
LInLog(b) == \E r \in LRows : r.bill = b

\* C5: when the latest loader_log record has bill B and the file holds
\* well-formed blocks for distinct bills b1..bn with B = bk, a run (in which no
\* statement raises) inserts rows only for blocks after bk whose bill was absent
\* from storage, inserts such a row for each of them, performs no Super / Tunnel
\* update for a block before bk, and performs both for every block from bk on.
C5_TailSeek ==
  \A p \in LProcs :
    LET lines == lrun[p].lines
        ops == lrun[p].ops
    IN ( /\ LRunDone(p) /\ lrun[p].full_success
         /\ LWellFormed(lines)
         /\ IsSome(lrun[p].last_bill)
         /\ \A j1, j2 \in LBlocksOf(lines) :
              LBillAt(lines, j1) = LBillAt(lines, j2) => j1 = j2
         /\ \E k \in LBlocksOf(lines) : LBillAt(lines, k) = Val(lrun[p].last_bill) )
       => LET k == CHOOSE j \in LBlocksOf(lines) :
                     LBillAt(lines, j) = Val(lrun[p].last_bill)
          IN /\ \A x \in DOMAIN ops :
                  ops[x].op = "insert" =>
                    ops[x].i > 4 * k /\ ops[x].bill \notin lrun[p].pre
             /\ \A j \in LBlocksOf(lines) :
                  (j > k /\ LBillAt(lines, j) \notin lrun[p].pre) =>
                    (LDid(p, "insert", j) \/ LInLog(LBillAt(lines, j)))
             /\ \A j \in LBlocksOf(lines) :
                  j < k => ~LDid(p, "super", j) /\ ~LDid(p, "tunnel", j)
             /\ \A j \in LBlocksOf(lines) :
                  j >= k => LDid(p, "super", j) /\ LDid(p, "tunnel", j)

\* C10: a run deletes the file only if every block it walked succeeded (parsed,
\* insert-if-absent and both updates done) and the file has no trailing block
\* of fewer than 4 lines.
C10_DeleteOnlyIfAllSucceeded ==
  \A p \in LProcs :
    (LRunDone(p) /\ lrun[p].deleted) =>
      /\ Len(lrun[p].lines) % 4 = 0
      /\ \A j \in LBlocksOf(lrun[p].lines) :
           4 * j >= lrun[p].start_index =>
             /\ IsSome(ParseBlock(lrun[p].lines, 4 * j))
             /\ LDid(p, "super", j) /\ LDid(p, "tunnel", j)
             /\ LDid(p, "insert", j) \/ LInLog(LBillAt(lrun[p].lines, j))

\* the statement was executed for block j, with or without success
LAttempted(p, name, j) == LDid(p, name, j) \/ LDid(p, RaisedOp[name], j)

\* C12: within one block the loader_log insert, the Super update and the
\* Tunnel update are independent failure units: after a failed insert the
\* Super and Tunnel updates of the block are still attempted, after a failed
\* Super update the Tunnel update is still attempted.
C12_IndependentUnits ==
  \A p \in LProcs :
    \A j \in LBlocksOf(lrun[p].lines) :
      (lrun[p].pc = "block" /\ lrun[p].i > 4 * j) =>
        /\ LDid(p, "insert_raised", j) =>
             LAttempted(p, "super", j) /\ LAttempted(p, "tunnel", j)
        /\ LDid(p, "super_raised", j) => LAttempted(p, "tunnel", j)

\* C18: retry across runs.  A block that failed in a run without being
\* persisted, in a file that was retained, is walked again by the next run: the
\* tail-seek never starts past such a block, and the file is never deleted
\* while such a block is still unprocessed.
C18_FailedBlockRetried ==
  \A p \in LProcs :
    /\ LWalking(p) => \A i \in lunprocessed : lrun[p].start_index <= i
    /\ (LRunDone(p) /\ lrun[p].deleted) => lunprocessed = {}

\* bill B is the primary invoice id (second line) of block k of the file
LPrimaryIs(lines, k, B) ==
  lines[4 * k + 2].k = "inv" /\ ToInt(lines[4 * k + 2].n) = B
\* the blocks of the file that have their second line, complete or not
LBlocksBegun(lines) == {j \in 0..(Len(lines) \div 4) : 4 * j + 2 <= Len(lines)}

\* C19: tail-seek start position.  When the last persisted bill B is the
\* primary invoice id of block k of the file (and of no other block), the walk
\* starts at line index 4*k, whatever other primary or secondary ids the file
\* holds; when the marker of B occurs in no line, the walk starts at index 0.
C19_TailSeekStart ==
  \A p \in LProcs :
    LET lines == lrun[p].lines
        B == lrun[p].last_bill
    IN (LWalking(p) /\ IsSome(B) /\ Val(B) /= 0) =>
         /\ \A k \in LBlocksOf(lines) :
              ( /\ LPrimaryIs(lines, k, Val(B))
                /\ \A j \in LBlocksBegun(lines) \ {k} : ~LPrimaryIs(lines, j, Val(B)) )
              => lrun[p].start_index = 4 * k
         /\ (\A x \in DOMAIN lines : ~MatchesLastPattern(lines[x], Val(B)))
              => lrun[p].start_index = 0

\* the complete blocks process p has walked so far
LWalked(p) ==
  {j \in LBlocksOf(lrun[p].lines) :
     lrun[p].start_index <= 4 * j /\ 4 * j < lrun[p].i}

\* C23: for every well-formed block walked by a run, whose bill was found
\* present or was newly inserted, both the Super update and the Tunnel update
\* are attempted; the insert is executed only when no loader_log row with that
\* bill exists, so loader_log never holds two rows of one bill.
C23_UpdatesAlwaysAttempted ==
  /\ \A p \in LProcs :
       \A j \in LWalked(p) :
         (lrun[p].pc = "block" /\ IsSome(ParseBlock(lrun[p].lines, 4 * j))
            /\ ~LDid(p, "select_raised", j) /\ ~LDid(p, "insert_raised", j))
         => LAttempted(p, "super", j) /\ LAttempted(p, "tunnel", j)
  /\ \A x, y \in DOMAIN loader_log :
       loader_log[x].bill = loader_log[y].bill => x = y

\* some statement was executed for block j
LTouched(p, j) == \E x \in DOMAIN lrun[p].ops : lrun[p].ops[x].i = 4 * j
LRaised(p, j) == \E x \in DOMAIN lrun[p].ops :
                   /\ lrun[p].ops[x].i = 4 * j
                   /\ lrun[p].ops[x].op \in {RaisedOp[n] : n \in DOMAIN RaisedOp}

\* C24: an invalid block (unparsable timestamp or time, no Invoice Id number
\* on its second or fourth line) causes no insert and no update, and does not
\* end the run: when the run is over every complete block from the start
\* index on was walked, and every well-formed one among them was processed
\* (its bill is in loader_log and both updates were made, up to a statement of
\* its own that raised).
C24_InvalidBlockSkipped ==
  \A p \in LProcs :
    /\ \A j \in LWalked(p) :
         IsNone(ParseBlock(lrun[p].lines, 4 * j)) => ~LTouched(p, j)
    /\ LRunDone(p) =>
         \A j \in LBlocksOf(lrun[p].lines) :
           4 * j >= lrun[p].start_index =>
             /\ j \in LWalked(p)
             /\ (IsSome(ParseBlock(lrun[p].lines, 4 * j)) /\ ~LRaised(p, j)) =>
                  /\ LDid(p, "super", j) /\ LDid(p, "tunnel", j)
                  /\ LInLog(LBillAt(lrun[p].lines, j))

\* a finished run over a file whose first walked block is invalid and whose
\* next block is well-formed: the latter was inserted and both updates made
C24_Witness ==
  \E p \in LProcs :
    /\ LRunDone(p)
    /\ \E j \in LWalked(p) :
         /\ IsNone(ParseBlock(lrun[p].lines, 4 * j))
         /\ j + 1 \in LWalked(p)
         /\ IsSome(ParseBlock(lrun[p].lines, 4 * (j + 1)))
         /\ LDid(p, "insert", j + 1) /\ LDid(p, "super", j + 1)
         /\ LDid(p, "tunnel", j + 1)
         /\ LInLog(LBillAt(lrun[p].lines, j + 1))

\* the Super row is at the Wash stage or beyond
AtOrBeyondWash(r) == IsSome(r.status) /\ Val(r.status) >= 3

\* every step leaves a Super row at stage 3 or beyond as it is, and changes
\* another row only to stage 3 'Wash', in a step in which a process executes
\* the UPDATE for a block of the row's bill, day and location
SuperStep ==
  \A r \in super_t :
    \/ r \in super_t'
    \/ /\ ~AtOrBeyondWash(r)
       /\ r.location = "FRA"
       /\ \E t \in 0..(4 * MaxBlocks) :
            [r EXCEPT !.status = Some(3), !.prep_end = Some(t),
                      !.status_desc = Some("Wash")] \in super_t'
       /\ \E p \in LProcs :
            /\ lrun[p].pc = "super" /\ lrun'[p].pc = "tunnel"
            /\ Val(LBlockOf(p)).bill = r.bill
            /\ Val(LBlockOf(p)).date_part = r.created_on

\* C22: a Loader run never regresses a Super record.  Over any sequence of
\* runs a row whose status is 3 or higher keeps its status, prep_end and
\* status_desc; a row is changed only to status 3 'Wash', only when its status
\* was null or below 3, and only by a block matching its bill, created_on and
\* location.
C22_SuperNeverRegresses ==
  /\ [](/\ Cardinality(super_t) = Cardinality(SuperRows0)
        /\ \A r0 \in SuperRows0 :
             (AtOrBeyondWash(r0) \/ r0.location /= "FRA") => r0 \in super_t)
  /\ [][SuperStep]_vars

\* a process executed the UPDATE for a block of bill 1 logged at hour 2 after
\* the row of bill 1 (no status at first) had been brought to stage 3 by the
\* block logged at hour 1: the row keeps the time of the earlier block; the
\* row of bill 2 (stage 5) and the row of bill 1 at the other location are as
\* they were
C22_Witness ==
  /\ [SuperRow(1, Some(3)) EXCEPT !.prep_end = Some(1), !.status_desc = Some("Wash")]
       \in super_t
  /\ \E p \in LProcs :
       \E j \in LBlocksOf(lrun[p].lines) :
         /\ IsSome(ParseBlock(lrun[p].lines, 4 * j)) /\ LDid(p, "super", j)
         /\ LBillAt(lrun[p].lines, j) = 1
         /\ Val(ParseBlock(lrun[p].lines, 4 * j)).time_part = 2
  /\ SuperRow(2, Some(5)) \in super_t
  /\ [SuperRow(1, Some(1)) EXCEPT !.location = "NSH"] \in super_t

-----------------------------------------------------------------------------
(***************************************************************************)
(* RTC PIPELINE: properties.                                               *)
(* rrun[r].checked has one entry per event the loop of run r evaluated, in *)
(* order: entry k tells whether the SELECT found event k's wash_id and     *)
(* whether the event was inserted.  rrun[r].pre holds the wash_ids that    *)
(* were in rtc_log when run r began.                                       *)
(***************************************************************************)
RDone(r) == rrun[r].pc = "done"

\* C6: RTC early-stop.  In every run, once two consecutive recv events were
\* found to exist already, the loop is over: no later event is
\* existence-checked or inserted.  In particular, when the wash_ids of events
\* k and k+1 were in rtc_log when the run began, no event after k+1 is ever
\* evaluated (five events, positions 3 and 4 in storage: position 5 is not).
C6_EarlyStop ==
  \A r \in RProcs :
    LET R == rrun[r]
    IN /\ \A k \in 1..(Len(R.checked) - 1) :
            (R.checked[k].exists /\ R.checked[k + 1].exists) => Len(R.checked) = k + 1
       /\ \A k \in 1..(Len(R.recv_entries) - 1) :
            (R.recv_entries[k].wash_id \in R.pre /\ R.recv_entries[k + 1].wash_id \in R.pre)
              => Len(R.checked) <= k + 1

\* a run over five recv events, the third and fourth in storage, the fifth
\* new, that ended after evaluating the fourth; the fifth wash is not stored
C6_Witness ==
  \E r \in RProcs :
    LET R == rrun[r]
    IN /\ RDone(r) /\ R.exit = "ok"
       /\ Len(R.recv_entries) = 5
       /\ R.recv_entries[3].wash_id \in R.pre
       /\ R.recv_entries[4].wash_id \in R.pre
       /\ R.recv_entries[5].wash_id \notin R.pre
       /\ Len(R.checked) = 4
       /\ R.checked[3].exists /\ R.checked[4].exists
       /\ ~Exists(rtc_log, <<>>, R.recv_entries[5].wash_id)

\* the objects in quarantine: their key contains "rtc/unparsed/"
Quarantine == {k \in s3_keys : InUnparsed(k)}
UploadsOf(r) == {j \in 1..Len(ruploads) : ruploads[j].run = r}

\* C8: quarantine law.  A run whose parse yields no recv entry inserts no row
\* and leaves exactly one copy of the file in quarantine, whatever the source
\* key; a run on a key already in quarantine uploads nothing; the quarantine
\* set never holds more than one copy of the file.
C8_QuarantineLaw ==
  /\ \A r \in RProcs :
       (RDone(r) /\ rrun[r].exit = "unparsed") =>
         /\ rrun[r].inserted_count = 0
         /\ rrun[r].checked = <<>>
         /\ Cardinality(Quarantine) = 1
  /\ \A r \in RProcs : InUnparsed(rrun[r].key) => UploadsOf(r) = {}
  /\ Cardinality(Quarantine) <= 1

\* the events of run r whose INSERT raised
FailedInserts(r) ==
  {k \in 1..Len(rrun[r].checked) :
     ~rrun[r].checked[k].exists /\ ~rrun[r].checked[k].inserted}
\* C11: an RTC run in which the INSERT of at least one recv event failed
\* never deletes the source object.
C11_NoDeleteAfterFailedInsert ==
  \A r \in RProcs : FailedInserts(r) /= {} => ~rrun[r].deleted

\* C13: rtc_log never holds two rows for the same wash_id that were both
\* inserted by runs over the file, however the runs interleave.
C13_NoDuplicateWash ==
  \A p, q \in RProcs :
    \A i \in 1..Len(rrun[p].committed), j \in 1..Len(rrun[q].committed) :
      rrun[p].committed[i].wash_id = rrun[q].committed[j].wash_id => (p = q /\ i = j)

\* C29 (as claimed): a run deletes the source object only when it persisted
\* at least one event; a run that reaches the insertion loop and inserts zero
\* rows leaves the source object in place.
\* (stated for the runs in which no INSERT raised)
C29_DeleteOnlyIfPersisted ==
  \A r \in RProcs :
    (rrun[r].deleted /\ FailedInserts(r) = {}) => rrun[r].committed /= <<>>

\* run r is past the delete_object call that follows its insertion loop
RPastDelete(r) == rrun[r].pc = "remove" \/ (RDone(r) /\ rrun[r].exit = "ok")

\* C29 (amended): a run calls delete_object on the source object exactly when
\* it reaches the end of its insertion loop (events exhausted, or early stop),
\* whatever the number of rows it inserted, zero included, and the object is
\* gone unless the call itself raised; a run that found no object or no recv
\* entry, or that died before or inside the loop, deletes nothing.
C29_DeleteAfterLoop ==
  \A r \in RProcs :
    /\ (rrun[r].deleted \/ rrun[r].delete_raised) <=> RPastDelete(r)
    /\ ~(rrun[r].deleted /\ rrun[r].delete_raised)
    /\ rrun[r].deleted => rrun[r].key \notin s3_keys
    /\ RPastDelete(r) =>
         \/ Len(rrun[r].checked) = Len(rrun[r].recv_entries)
         \/ /\ Len(rrun[r].checked) >= 2
            /\ rrun[r].checked[Len(rrun[r].checked)].exists
            /\ rrun[r].checked[Len(rrun[r].checked) - 1].exists

\* a run in which no INSERT raised checked two events, found both in storage,
\* stopped early with a third event unread, inserted nothing and deleted the
\* source object
C29_Witness ==
  \E r \in RProcs :
    /\ RDone(r) /\ rrun[r].exit = "ok"
    /\ FailedInserts(r) = {}
    /\ Len(rrun[r].checked) = 2 /\ Len(rrun[r].recv_entries) >= 3
    /\ rrun[r].inserted_count = 0 /\ rrun[r].committed = <<>>
    /\ rrun[r].deleted /\ rrun[r].key \notin s3_keys

\* C17: every row a run inserts into rtc_log has direction recv, pending or
\* committed; no send-direction event is ever persisted.
C17_OnlyRecvPersisted ==
  /\ \A j \in 1..Len(rtc_log) : rtc_log[j].direction = "recv"
  /\ \A r \in RProcs : \A j \in 1..Len(rrun[r].pending) :
       rrun[r].pending[j].direction = "recv"

\* a run over a log with a send event and a recv event has committed a row
C17_Witness ==
  \E r \in RProcs :
    /\ RDone(r) /\ rrun[r].exit = "ok"
    /\ \E k \in 1..Len(parse_rtc_log(rfile)) : parse_rtc_log(rfile)[k].direction = "send"
    /\ rrun[r].committed /= <<>>

-----------------------------------------------------------------------------
(***************************************************************************)
(* Specifications: one per pipeline; the other pipelines stay at rest.     *)
(***************************************************************************)
-----------------------------------------------------------------------------
(***************************************************************************)
(* KIOSK PIPELINE BEHIND /trigger: properties.                             *)
(***************************************************************************)
\* some process persisted the rows of the object with key k
TProcessed(k) ==
  \E p \in TProcs : trun[p].upserted /\ trun[p].s3_key = Some(k)

\* C30: the process started by a /trigger request for key K reads, persists
\* and deletes object K: no process reads or deletes an object other than the
\* one it was triggered for, and once every triggered process has ended (as
\* each does, after at most four steps) every uploaded object was processed.
C30_TriggerProcessesItsKey ==
  /\ \A p \in TProcs :
       /\ IsSome(trun[p].s3_key) => trun[p].s3_key = trun[p].argv
       /\ IsSome(trun[p].deleted) => trun[p].deleted = trun[p].argv
  /\ (\A p \in TProcs : trun[p].pc = "done") =>
       \A d \in TProcs : TProcessed(TName(d))

InitKiosk == KInit /\ LInit /\ RIdle /\ TIdle
SpecKiosk == InitKiosk /\ [][KNext]_vars

InitLoader == KIdle /\ LInit /\ RIdle /\ TIdle
SpecLoader == InitLoader /\ [][LNext]_vars

InitRtc == KIdle /\ LInit /\ RInit /\ TIdle
SpecRtc == InitRtc /\ [][RNext]_vars

\* the RTC module used as a library: calls of insert_entries only
SpecInsertEntries == InitRtc /\ [][\E raises \in BOOLEAN : RInsertEntries(raises)]_vars

InitTrigger == KIdle /\ LInit /\ RIdle /\ TInit
SpecTrigger == InitTrigger /\ [][TNext]_vars

=============================================================================
